---- MODULE Spec2Model ----
(***************************************************************************)
(* Model of the AI-Slice core business rules (backend/app): the wallet     *)
(* ledger (services/payment_service.py), the order lifecycle               *)
(* (services/order_service.py, api/orders.py, api/chef.py), delivery       *)
(* bidding and assignment (services/delivery_service.py), the reputation   *)
(* event recorder (services/reputation_service.py) and the manager         *)
(* account actions (api/manager.py).                                       *)
(*                                                                         *)
(* Conventions.                                                            *)
(*  - Money is kept in cents, so the Float arithmetic of the source is     *)
(*    modelled exactly (prices are multiples of 20 cents, so the 5% VIP    *)
(*    discount is a whole number of cents).                                *)
(*  - A user, its Customer / DeliveryPerson row and its Wallet share one   *)
(*    identifier (the rows are one-to-one in the source).                  *)
(*  - Every action is one call of a service method or request handler      *)
(*    and yields the committed database state when the call ends.  A call  *)
(*    that raises leaves only what it had committed before the raise.      *)
(*  - last records the most recent call: which operation, how it ended     *)
(*    ("ok" = success, "fail" = returned success=False or an HTTP error,   *)
(*    "raise" = an unhandled Python exception), and its arguments.         *)
(***************************************************************************)
EXTENDS Integers, Sequences, FiniteSets, TLC

(***************************************************************************)
(* Bounds of the model.                                                    *)
(***************************************************************************)
MaxOrders == 4
MaxTx == 5
LedgerOrders == 2
LedgerTx == 3
MaxBids == 2
MaxTime == 60
TickStep == 30

(***************************************************************************)
(* Program constants.                                                      *)
(***************************************************************************)
DefaultDeliveryFee == 500
VipDiscountPercentage == 5
VipSpendingThreshold == 10000
VipOrderThreshold == 3
StaffBonus == 5000
BiddingDurationMinutes == 30

Customers == {"c1", "c2"}
Couriers == {"p1", "p2"}
Chefs == {"ch1"}
Users == Customers \cup Couriers \cup Chefs

\* A user id with no User row.  Reputation.user_id is a foreign key, which
\* the configured SQLite engine does not enforce.
UnregisteredIds == {"x1"}

\* The ids a Reputation row can carry; a missing row reads as score 0, the
\* value record_event creates it with.
ReputationIds == Users \cup UnregisteredIds
None == "none"

\* The menu: d1 is a regular dish, d2 is VIP-only, d3 is unavailable, d4 is
\* VIP-only and unavailable.
Dishes ==
  [ d1 |-> [price |-> 2000, is_available |-> TRUE,  is_special |-> FALSE],
    d2 |-> [price |-> 3000, is_available |-> TRUE,  is_special |-> TRUE],
    d3 |-> [price |-> 1500, is_available |-> FALSE, is_special |-> FALSE],
    d4 |-> [price |-> 3500, is_available |-> FALSE, is_special |-> TRUE] ]

\* The carts offered to createOrder.
Carts ==
  { << >>,
    << [dish_id |-> "d1", quantity |-> 1] >>,
    << [dish_id |-> "d3", quantity |-> 1], [dish_id |-> "d1", quantity |-> 1] >>,
    << [dish_id |-> "d3", quantity |-> 1] >>,
    << [dish_id |-> "d1", quantity |-> 1], [dish_id |-> "d2", quantity |-> 1] >>,
    << [dish_id |-> "d4", quantity |-> 1], [dish_id |-> "d1", quantity |-> 1] >> }

\* The amounts offered to deposit.
DepositAmounts == {-1000, 0, 3000}

VARIABLES
  userType,      \* User.user_type
  userStatus,    \* User.status
  wallet,        \* Wallet rows, by user
  txs,           \* Transaction rows, in insertion order
  cust,          \* Customer rows
  vipRec,        \* VIPCustomer rows, by customer
  orders,        \* Order rows; the index is the order id
  orderItems,    \* OrderItem rows
  complaints,    \* Complaint rows
  repScore,      \* Reputation.score, by user
  repEvents,     \* ReputationEvent rows
  repTotals,     \* Reputation rows: existence and the three event counters
  compliments,   \* Compliment rows
  staff,         \* Chef and DeliveryPerson rows: counters, salary, rating
  dishStats,     \* Dish.average_rating and rating_count
  orderRatings,  \* Order.food_rating, delivery_rating and OrderItem.rating
  sess,          \* the calls in progress: position and rows loaded
  deliveries,    \* Delivery rows; the index is the delivery id
  bids,          \* DeliveryBid rows; the index is the bid id
  courier,       \* DeliveryPerson rows
  now,           \* datetime.utcnow(), in minutes
  last           \* the most recent call and its outcome

db == << userType, userStatus, wallet, txs, cust, vipRec, orders, orderItems,
         complaints, repScore, repEvents, repTotals, compliments, staff, dishStats,
         orderRatings, deliveries, bids, courier >>
vars == << userType, userStatus, wallet, txs, cust, vipRec, orders, orderItems,
           complaints, repScore, repEvents, repTotals, compliments, staff, dishStats,
           orderRatings, deliveries, bids, courier, sess, now, last >>

Call(op, res, msg, u, o, amt) ==
  [op |-> op, res |-> res, msg |-> msg, u |-> u, o |-> o, amt |-> amt]

\* a call that returned failure: its arguments are not recorded
Failed(op, msg) == Call(op, "fail", msg, None, 0, 0)

\* a call that raised an unhandled exception
Raised(op, exc) == Call(op, "raise", exc, None, 0, 0)

\* A call that raises: its session is discarded with every write it had not
\* committed (transaction abort-on-error).
Abort(op, exc) ==
  /\ last' = Raised(op, exc)
  /\ UNCHANGED << db, sess, now >>

RECURSIVE SumSeq(_)
SumSeq(s) == IF s = << >> THEN 0 ELSE Head(s) + SumSeq(Tail(s))

\* The indices of s whose element satisfies Test, in order.
SelectIdx(s, Test(_)) == { i \in 1..Len(s) : Test(s[i]) }

Min(S) == CHOOSE x \in S : \A y \in S : x <= y

\* A Float column that holds a rating average: the exact quotient n / d in
\* lowest terms (the rounding of the 64-bit float is not modelled).
RECURSIVE Gcd(_, _)
Gcd(a, b) == IF b = 0 THEN a ELSE Gcd(b, a % b)

Rat(n, d) == LET g == Gcd(n, d) IN [n |-> n \div g, d |-> d \div g]

\* (average * count + rating) / divisor
NextAverage(average, count, rating, divisor) ==
  Rat(average.n * count + rating * average.d, average.d * divisor)

\* The database sessions that can be open at the same time, and a session
\* with no call in progress.
Sessions == {"s1", "s2"}
Idle == [pc |-> "idle"]

(***************************************************************************)
(* Init: the database after registration and approval of the users, with  *)
(* no order, no transaction and empty wallets.  InitTables is every table  *)
(* but the complaints; InitSeeded adds the pending complaints that         *)
(* seed_data.py inserts (customer1 against the chef, customer2 against     *)
(* delivery1).                                                             *)
(***************************************************************************)
SeedComplaints ==
  << [complainant_id |-> "c1", subject_id |-> "ch1", weight |-> 1,
      status |-> "pending", is_disputed |-> FALSE],
     [complainant_id |-> "c2", subject_id |-> "p1", weight |-> 1,
      status |-> "pending", is_disputed |-> FALSE] >>

InitTables ==
  /\ userType = [u \in Users |->
                   IF u \in Customers THEN "customer"
                   ELSE IF u \in Couriers THEN "delivery" ELSE "chef"]
  /\ userStatus = [u \in Users |-> "active"]
  /\ wallet = [u \in Customers |->
                 [balance |-> 0, total_deposited |-> 0,
                  total_spent |-> 0, total_refunded |-> 0]]
  /\ txs = << >>
  /\ cust = [c \in Customers |->
               [is_vip |-> FALSE, total_orders |-> 0, total_spent |-> 0,
                vip_orders_count |-> 0]]
  /\ vipRec = [c \in Customers |->
                 [exists |-> FALSE, free_deliveries_earned |-> 0,
                  free_deliveries_used |-> 0]]
  /\ orders = << >>
  /\ orderItems = << >>
  /\ repScore = [u \in ReputationIds |-> 0]
  /\ repEvents = << >>
  /\ repTotals = [u \in ReputationIds |->
                    [exists |-> u \in Users, complaints |-> 0,
                     compliments |-> 0, warnings |-> 0]]
  /\ compliments = << >>
  /\ staff = [u \in Couriers \cup Chefs |->
                [complaints_count |-> 0, compliments_count |-> 0,
                 demotion_count |-> 0, salary |-> 0,
                 average_rating |-> Rat(0, 1)]]
  /\ dishStats = [d \in DOMAIN Dishes |->
                    [average_rating |-> Rat(0, 1), rating_count |-> 0]]
  /\ orderRatings = [food |-> << >>, delivery |-> << >>, item |-> << >>]
  /\ sess = [p \in Sessions |-> Idle]
  /\ deliveries = << >>
  /\ bids = << >>
  /\ courier = [p \in Couriers |-> [is_available |-> TRUE, total_deliveries |-> 0]]
  /\ now = 0
  /\ last = Call("init", "ok", "", None, 0, 0)

Init == InitTables /\ complaints = << >>

InitSeeded == InitTables /\ complaints = SeedComplaints

(***************************************************************************)
(* PaymentService.deposit_money                                            *)
(***************************************************************************)
\* deposit_money with the check `amount == 0` in place of `amount <= 0`
InvalidAmountZeroOnly(amount) == amount = 0

\* `amount <= 0` in deposit_money
InvalidAmount(amount) == amount <= 0

DepositMoney(u, amount) ==
  /\ ~InvalidAmount(amount) => Len(txs) < MaxTx
  /\ IF InvalidAmount(amount)
     THEN /\ last' = Failed("deposit", "amount_not_positive")
          /\ UNCHANGED << db, sess, now >>
     ELSE LET before == wallet[u].balance
              after  == before + amount
          IN /\ wallet' = [wallet EXCEPT ![u].balance = after,
                                         ![u].total_deposited = @ + amount]
             /\ txs' = Append(txs, [wallet_id |-> u, order_id |-> 0,
                                    type |-> "deposit", amount |-> amount,
                                    balance_before |-> before,
                                    balance_after |-> after])
             /\ last' = Call("deposit", "ok", "deposited", u, 0, amount)
             /\ UNCHANGED << userType, userStatus, cust, vipRec, orders,
                             orderItems, complaints, repScore, repEvents, repTotals, compliments, staff, dishStats, orderRatings, sess,
                             deliveries, bids, courier, now >>

(***************************************************************************)
(* ReputationService.record_event                                          *)
(***************************************************************************)
ReputationEventType ==
  { "COMPLAINT", "COMPLIMENT", "WARNING", "BONUS", "DEMOTION", "PROMOTION",
    "ORDER_COMPLETED", "ORDER_REJECTED", "INSUFFICIENT_FUNDS", "RATING_RECEIVED" }

\* str.upper, on the event_type strings that are passed
Upper(t) ==
  CASE t = "complaint" -> "COMPLAINT"
    [] t = "compliment" -> "COMPLIMENT"
    [] t = "warning" -> "WARNING"
    [] t = "bonus" -> "BONUS"
    [] t = "demotion" -> "DEMOTION"
    [] t = "promotion" -> "PROMOTION"
    [] t = "order_completed" -> "ORDER_COMPLETED"
    [] t = "order_rejected" -> "ORDER_REJECTED"
    [] t = "insufficient_funds" -> "INSUFFICIENT_FUNDS"
    [] t = "rating_received" -> "RATING_RECEIVED"
    [] OTHER -> t

\* ReputationEventType[event_type.upper()], with its KeyError fallback.
EventEnum(event_type) ==
  IF Upper(event_type) \in ReputationEventType THEN Upper(event_type)
  ELSE "ORDER_COMPLETED"

CalculateScoreChange(e) ==
  CASE e = "COMPLAINT" -> -10
    [] e = "COMPLIMENT" -> 10
    [] e = "WARNING" -> -20
    [] e = "BONUS" -> 15
    [] e = "DEMOTION" -> -25
    [] e = "PROMOTION" -> 30
    [] e = "ORDER_COMPLETED" -> 2
    [] e = "ORDER_REJECTED" -> -5
    [] e = "INSUFFICIENT_FUNDS" -> -3
    [] e = "RATING_RECEIVED" -> 0
    [] OTHER -> 0

\* The names reputation_service.py binds at module level come from its
\* import block; UserType is not among them (only _demote_from_vip imports
\* it, locally), so evaluating UserType elsewhere raises NameError.
ReputationServiceImportsUserType == FALSE

\* record_event with the score overwritten by the delta
RecordEventOverwritesScore(u, event_type) ==
  LET e == EventEnum(event_type)
      d == CalculateScoreChange(e)
  IN [ raises |-> (u \in Users) /\ ~ReputationServiceImportsUserType,
       events |-> Append(repEvents, [user_id |-> u, event_type |-> e,
                                     score_change |-> d,
                                     description |-> event_type]),
       score  |-> [repScore EXCEPT ![u] = d],
       totals |-> [repTotals EXCEPT
                     ![u].exists = TRUE,
                     ![u].complaints = IF e = "COMPLAINT" THEN @ + 1 ELSE @,
                     ![u].compliments = IF e = "COMPLIMENT" THEN @ + 1 ELSE @,
                     ![u].warnings = IF e = "WARNING" THEN @ + 1 ELSE @] ]

\* record_event(user_id, event_type): the event row and the score it writes,
\* and whether the call raises before its commit.  The user row is loaded
\* after the writes; when it exists, `user.user_type in [UserType.CHEF, ...]`
\* is evaluated.
RecordEvent(u, event_type) ==
  LET e == EventEnum(event_type)
      d == CalculateScoreChange(e)
  IN [ raises |-> (u \in Users) /\ ~ReputationServiceImportsUserType,
       events |-> Append(repEvents, [user_id |-> u, event_type |-> e,
                                     score_change |-> d,
                                     description |-> event_type]),
       score  |-> [repScore EXCEPT ![u] = @ + d],
       totals |-> [repTotals EXCEPT
                     ![u].exists = TRUE,
                     ![u].complaints = IF e = "COMPLAINT" THEN @ + 1 ELSE @,
                     ![u].compliments = IF e = "COMPLIMENT" THEN @ + 1 ELSE @,
                     ![u].warnings = IF e = "WARNING" THEN @ + 1 ELSE @] ]

(***************************************************************************)
(* ReputationService.check_staff_performance, called directly.  Its first  *)
(* statement evaluates UserType for every existing user.                   *)
(***************************************************************************)
CheckStaffPerformance(u) ==
  IF u \notin Users
  THEN \* `not user`: returns before UserType is evaluated
       /\ last' = Call("check_staff_performance", "ok", "", None, 0, 0)
       /\ UNCHANGED << db, sess, now >>
  ELSE IF ~ReputationServiceImportsUserType
  THEN Abort("check_staff_performance", "NameError")
  ELSE \* the review itself: not reached by this build
       /\ last' = Call("check_staff_performance", "ok", "", u, 0, 0)
       /\ wallet' = IF u \in DOMAIN wallet
                    THEN [wallet EXCEPT ![u].balance = @ + StaffBonus]
                    ELSE wallet
       /\ UNCHANGED << userType, userStatus, txs, cust, vipRec, orders,
                       orderItems, complaints, repScore, repEvents, repTotals, compliments, staff, dishStats, orderRatings, sess,
                       deliveries, bids, courier, now >>

(***************************************************************************)
(* PaymentService.process_payment, on the session state (w, t, cu).       *)
(***************************************************************************)
OutstandingComplaints(u) ==
  Cardinality({ i \in DOMAIN complaints :
                  /\ complaints[i].subject_id = u
                  /\ complaints[i].status \in {"pending", "under_review"} })

SufficientFunds(balance, amount) == ~(balance < amount)

ProcessPayment(order_id, c, amount, w, t, cu) ==
  IF ~SufficientFunds(w[c].balance, amount)
  THEN [ok |-> FALSE, wallet |-> w, txs |-> t, cust |-> cu]
  ELSE
    LET before == w[c].balance
        after  == before - amount
        spent  == cu[c].total_spent + amount
        nord   == cu[c].total_orders + 1
        upgrade == /\ ~cu[c].is_vip
                   /\ (spent > VipSpendingThreshold \/ nord >= VipOrderThreshold)
                   /\ OutstandingComplaints(c) = 0
    IN [ ok |-> TRUE,
         wallet |-> [w EXCEPT ![c].balance = after,
                              ![c].total_spent = @ + amount],
         txs |-> Append(t, [wallet_id |-> c, order_id |-> order_id,
                            type |-> "order_payment", amount |-> amount,
                            balance_before |-> before,
                            balance_after |-> after]),
         cust |-> [cu EXCEPT ![c].total_spent = spent,
                             ![c].total_orders = nord,
                             ![c].is_vip = IF upgrade THEN TRUE ELSE @,
                             ![c].vip_orders_count = IF upgrade THEN 0 ELSE @] ]

(***************************************************************************)
(* OrderService.create_order                                               *)
(***************************************************************************)
IsAvailable(item) ==
  item.dish_id \in DOMAIN Dishes /\ Dishes[item.dish_id].is_available

ItemTotal(item) == Dishes[item.dish_id].price * item.quantity

\* the VIP-only check made on the first item of the cart only
VipOnlyRejectFirstItem(c, cart) ==
  /\ Len(cart) > 0
  /\ IsAvailable(cart[1])
  /\ Dishes[cart[1].dish_id].is_special
  /\ ~cust[c].is_vip

\* the VIP-only check of the cart loop: an available special dish ordered by
\* a customer who is not VIP
VipOnlyReject(c, cart) ==
  \E i \in 1..Len(cart) :
     /\ IsAvailable(cart[i])
     /\ Dishes[cart[i].dish_id].is_special
     /\ ~cust[c].is_vip

AvailableItems(cart) == SelectSeq(cart, IsAvailable)

TotalAmount(cart) ==
  SumSeq([i \in 1..Len(AvailableItems(cart)) |-> ItemTotal(AvailableItems(cart)[i])])

\* the discount given whether or not the customer is VIP
DiscountAmountForAll(c, cart) ==
  (TotalAmount(cart) * VipDiscountPercentage) \div 100

DiscountAmount(c, cart) ==
  IF cust[c].is_vip
  THEN (TotalAmount(cart) * VipDiscountPercentage) \div 100
  ELSE 0

IsFreeDelivery(c) ==
  /\ cust[c].is_vip
  /\ vipRec[c].exists
  /\ vipRec[c].free_deliveries_earned > vipRec[c].free_deliveries_used

DeliveryFee(c) == IF IsFreeDelivery(c) THEN 0 ELSE DefaultDeliveryFee

FinalAmount(c, cart) == TotalAmount(cart) - DiscountAmount(c, cart) + DeliveryFee(c)

\* `wallet.balance < final_amount` in create_order
InsufficientFunds(c, cart) == wallet[c].balance < FinalAmount(c, cart)

CreateOrder(c, cart) ==
  LET is_vip == cust[c].is_vip
      available_items == AvailableItems(cart)
      total_amount == TotalAmount(cart)
      discount_amount == DiscountAmount(c, cart)
      is_free_delivery == IsFreeDelivery(c)
      delivery_fee == DeliveryFee(c)
      final_amount == FinalAmount(c, cart)
      \* session state (not yet committed) after the pricing step
      vipRec1 == IF is_free_delivery
                 THEN [vipRec EXCEPT ![c].free_deliveries_used = @ + 1]
                 ELSE vipRec
      oid == Len(orders) + 1
      order0 == [customer_id |-> c, status |-> "pending_payment",
                 payment_status |-> "pending", subtotal |-> total_amount,
                 discount_amount |-> discount_amount,
                 total_amount |-> final_amount, delivery_fee |-> delivery_fee,
                 is_vip_order |-> is_vip, is_free_delivery |-> is_free_delivery]
      items1 == orderItems \o
                  [i \in 1..Len(available_items) |->
                     [order_id |-> oid, dish_id |-> available_items[i].dish_id,
                      quantity |-> available_items[i].quantity,
                      unit_price |-> Dishes[available_items[i].dish_id].price]]
      pay == ProcessPayment(oid, c, final_amount, wallet, txs, cust)
      \* after the payment: customer statistics and free-delivery progress
      vipNow == pay.cust[c].is_vip
      count1 == pay.cust[c].vip_orders_count + 1
      earns == vipNow /\ count1 % 3 = 0
      cust2 == [pay.cust EXCEPT
                  ![c].total_orders = @ + 1,
                  ![c].total_spent = @ + final_amount,
                  ![c].vip_orders_count = IF vipNow THEN count1 ELSE @]
      fail(msg) == /\ last' = Failed("create_order", msg)
                   /\ UNCHANGED << db, sess, now >>
  IN
  IF Len(cart) = 0 THEN fail("cart_empty")
  ELSE IF VipOnlyReject(c, cart) THEN fail("vip_only")
  ELSE IF Len(available_items) = 0 THEN fail("all_unavailable")
  ELSE IF c \notin DOMAIN wallet THEN fail("wallet_not_found")
  ELSE IF InsufficientFunds(c, cart)
  THEN \* insufficient funds: record the reputation event, then reject
       LET ev == RecordEvent(c, "INSUFFICIENT_FUNDS_ORDER_REJECTED")
       IN IF ev.raises
          THEN Abort("create_order", "NameError")
          ELSE /\ repEvents' = ev.events
               /\ repScore' = ev.score
               /\ repTotals' = ev.totals
               /\ vipRec' = vipRec1
               /\ last' = Failed("create_order", "insufficient_funds")
               /\ UNCHANGED << userType, userStatus, wallet, txs, cust, orders,
                               orderItems, complaints, compliments, staff, dishStats, orderRatings, sess,
                               deliveries, bids, courier, now >>
  ELSE
    /\ Len(orders) < MaxOrders
    /\ Len(txs) < MaxTx
    /\ orderItems' = items1
    /\ vipRec' = IF pay.ok /\ earns /\ vipRec1[c].exists
                 THEN [vipRec1 EXCEPT ![c].free_deliveries_earned = @ + 1]
                 ELSE vipRec1
    /\ wallet' = pay.wallet
    /\ txs' = pay.txs
    /\ IF ~pay.ok
       THEN \* payment failed: the order is kept, as rejected
            /\ orders' = Append(orders, [order0 EXCEPT !.status = "rejected",
                                             !.payment_status = "failed"])
            /\ cust' = cust
            /\ last' = Failed("create_order", "payment_failed")
       ELSE IF earns /\ ~vipRec1[c].exists
       THEN \* VIPCustomer(customer_id=...) has free_deliveries_earned = None
            \* until it is flushed: `+= 1` raises TypeError after the payment
            \* was committed by process_payment
            /\ orders' = Append(orders, [order0 EXCEPT !.payment_status = "paid"])
            /\ cust' = pay.cust
            /\ last' = Raised("create_order", "TypeError")
       ELSE /\ orders' = Append(orders, [order0 EXCEPT !.status = "placed",
                                             !.payment_status = "paid"])
            /\ cust' = cust2
            /\ last' = Call("create_order", "ok", "created", c, oid, final_amount)
    /\ UNCHANGED << userType, userStatus, complaints, repScore, repEvents, repTotals, compliments, staff, dishStats, orderRatings, sess,
                    deliveries, bids, courier, now >>

(***************************************************************************)
(* PaymentService.refund_order, on the session state (w, t, os).          *)
(***************************************************************************)
PaymentTxs(t, order_id) ==
  { i \in DOMAIN t : t[i].order_id = order_id /\ t[i].type = "order_payment" }

\* refund_order taking the balance_after snapshot before crediting the wallet
RefundStaleSnapshot(order_id, w, t, os) ==
  IF PaymentTxs(t, order_id) = {}
  THEN [ok |-> FALSE, wallet |-> w, txs |-> t, orders |-> os, amount |-> 0]
  ELSE
    LET original == t[Min(PaymentTxs(t, order_id))]
        wid      == original.wallet_id
        refund_amount == original.amount
        before == w[wid].balance
    IN [ ok |-> TRUE,
         wallet |-> [w EXCEPT ![wid].balance = before + refund_amount,
                              ![wid].total_refunded = @ + refund_amount],
         txs |-> Append(t, [wallet_id |-> wid, order_id |-> order_id,
                            type |-> "refund", amount |-> refund_amount,
                            balance_before |-> before,
                            balance_after |-> before]),
         orders |-> IF order_id \in DOMAIN os
                    THEN [os EXCEPT ![order_id].payment_status = "refunded"]
                    ELSE os,
         amount |-> refund_amount ]

Refund(order_id, w, t, os) ==
  IF PaymentTxs(t, order_id) = {}
  THEN [ok |-> FALSE, wallet |-> w, txs |-> t, orders |-> os, amount |-> 0]
  ELSE
    LET original == t[Min(PaymentTxs(t, order_id))]
        wid      == original.wallet_id
        refund_amount == original.amount
        before == w[wid].balance
        after  == before + refund_amount
    IN [ ok |-> TRUE,
         wallet |-> [w EXCEPT ![wid].balance = after,
                              ![wid].total_refunded = @ + refund_amount],
         txs |-> Append(t, [wallet_id |-> wid, order_id |-> order_id,
                            type |-> "refund", amount |-> refund_amount,
                            balance_before |-> before,
                            balance_after |-> after]),
         orders |-> IF order_id \in DOMAIN os
                    THEN [os EXCEPT ![order_id].payment_status = "refunded"]
                    ELSE os,
         amount |-> refund_amount ]

\* refund_order called directly
RefundOrder(order_id) ==
  LET r == Refund(order_id, wallet, txs, orders)
  IN /\ r.ok => Len(txs) < MaxTx
     /\ wallet' = r.wallet
     /\ txs' = r.txs
     /\ orders' = r.orders
     /\ last' = IF r.ok
                THEN Call("refund_order", "ok", "refunded",
                          txs[Min(PaymentTxs(txs, order_id))].wallet_id,
                          order_id, r.amount)
                ELSE Failed("refund_order", "payment_not_found")
     /\ UNCHANGED << userType, userStatus, cust, vipRec, orderItems, complaints,
                     repScore, repEvents, repTotals, compliments, staff, dishStats, orderRatings, sess, deliveries, bids, courier, now >>

(***************************************************************************)
(* api/orders.py cancel_order: OrderService.update_order_status(CANCELLED) *)
(* followed by PaymentService.refund_order, whose result is ignored.       *)
(***************************************************************************)
UpdateOrderStatus(os, order_id, new_status) ==
  IF order_id \in DOMAIN os
  THEN [os EXCEPT ![order_id].status = new_status]
  ELSE os

\* the cancellation check without IN_TRANSIT
CancelBlockedOnceDelivered(status) == status \in {"delivered", "completed"}

CancelBlocked(status) == status \in {"in_transit", "delivered", "completed"}

CancelOrder(c, order_id) ==
  IF ~(order_id \in DOMAIN orders /\ orders[order_id].customer_id = c)
  THEN /\ last' = Failed("cancel_order", "order_not_found")
       /\ UNCHANGED << db, sess, now >>
  ELSE IF CancelBlocked(orders[order_id].status)
  THEN /\ last' = Failed("cancel_order", "cannot_cancel")
       /\ UNCHANGED << db, sess, now >>
  ELSE
    LET os1 == UpdateOrderStatus(orders, order_id, "cancelled")
        r   == Refund(order_id, wallet, txs, os1)
    IN /\ r.ok => Len(txs) < MaxTx
       /\ wallet' = r.wallet
       /\ txs' = r.txs
       /\ orders' = r.orders
       /\ last' = Call("cancel_order", "ok",
                       IF r.ok THEN "refunded" ELSE "payment_not_found",
                       c, order_id, r.amount)
       /\ UNCHANGED << userType, userStatus, cust, vipRec, orderItems,
                       complaints, repScore, repEvents, repTotals, compliments, staff, dishStats, orderRatings, sess, deliveries, bids,
                       courier, now >>

(***************************************************************************)
(* api/manager.py close_customer_account and kick_customer                 *)
(***************************************************************************)
ClearWallet(w, u) ==
  IF u \in DOMAIN w THEN [w EXCEPT ![u].balance = 0] ELSE w

ManagerRemove(op, u, new_status) ==
  IF userType[u] # "customer"
  THEN /\ last' = Failed(op, "customer_not_found")
       /\ UNCHANGED << db, sess, now >>
  ELSE /\ wallet' = ClearWallet(wallet, u)
       /\ userStatus' = [userStatus EXCEPT ![u] = new_status]
       /\ last' = Call(op, "ok", "", u, 0,
                       IF u \in DOMAIN wallet THEN wallet[u].balance ELSE 0)
       /\ UNCHANGED << userType, txs, cust, vipRec, orders, orderItems,
                       complaints, repScore, repEvents, repTotals, compliments, staff, dishStats, orderRatings, sess, deliveries, bids,
                       courier, now >>

CloseCustomerAccount(u) == ManagerRemove("close_customer_account", u, "deactivated")

KickCustomer(u) == ManagerRemove("kick_customer", u, "blacklisted")

(***************************************************************************)
(* DeliveryService.create_delivery_listing, on the session state (ds).    *)
(***************************************************************************)
DeliveryOf(ds, order_id) == { d \in DOMAIN ds : ds[d].order_id = order_id }

\* create_delivery_listing without the query for an existing listing
CreateListingDuplicates(ds, os, order_id, delivery_fee, bidding_duration_minutes) ==
  IF order_id \notin DOMAIN os
  THEN [ok |-> FALSE, msg |-> "order_not_found", id |-> 0, deliveries |-> ds]
  ELSE [ok |-> TRUE, msg |-> "created", id |-> Len(ds) + 1,
        deliveries |->
          Append(ds, [order_id |-> order_id, status |-> "pending_bidding",
                      delivery_person_id |-> None, assignment_type |-> None,
                      winning_bid_amount |-> 0, manager_justification |-> None,
                      delivery_fee |-> delivery_fee,
                      bidding_ends_at |-> now + bidding_duration_minutes])]

\* create_delivery_listing restarting the bidding period of the listing it
\* finds, while still answering "already exists"
CreateListingRestartsBidding(ds, os, order_id, delivery_fee, bidding_duration_minutes) ==
  IF order_id \notin DOMAIN os
  THEN [ok |-> FALSE, msg |-> "order_not_found", id |-> 0, deliveries |-> ds]
  ELSE IF DeliveryOf(ds, order_id) # {}
  THEN [ok |-> FALSE, msg |-> "delivery_exists",
        id |-> Min(DeliveryOf(ds, order_id)),
        deliveries |->
          [ds EXCEPT ![Min(DeliveryOf(ds, order_id))].bidding_ends_at =
                        now + bidding_duration_minutes]]
  ELSE [ok |-> TRUE, msg |-> "created", id |-> Len(ds) + 1,
        deliveries |->
          Append(ds, [order_id |-> order_id, status |-> "pending_bidding",
                      delivery_person_id |-> None, assignment_type |-> None,
                      winning_bid_amount |-> 0, manager_justification |-> None,
                      delivery_fee |-> delivery_fee,
                      bidding_ends_at |-> now + bidding_duration_minutes])]

CreateListing(ds, os, order_id, delivery_fee, bidding_duration_minutes) ==
  IF order_id \notin DOMAIN os
  THEN [ok |-> FALSE, msg |-> "order_not_found", id |-> 0, deliveries |-> ds]
  ELSE IF DeliveryOf(ds, order_id) # {}
  THEN [ok |-> FALSE, msg |-> "delivery_exists",
        id |-> Min(DeliveryOf(ds, order_id)), deliveries |-> ds]
  ELSE [ok |-> TRUE, msg |-> "created", id |-> Len(ds) + 1,
        deliveries |->
          Append(ds, [order_id |-> order_id, status |-> "pending_bidding",
                      delivery_person_id |-> None, assignment_type |-> None,
                      winning_bid_amount |-> 0, manager_justification |-> None,
                      delivery_fee |-> delivery_fee,
                      bidding_ends_at |-> now + bidding_duration_minutes])]

\* create_delivery_listing called directly
CreateDeliveryListing(order_id) ==
  LET r == CreateListing(deliveries, orders, order_id,
                         IF order_id \in DOMAIN orders
                         THEN orders[order_id].delivery_fee ELSE DefaultDeliveryFee,
                         BiddingDurationMinutes)
  IN /\ deliveries' = r.deliveries
     /\ last' = Call("create_delivery_listing", IF r.ok THEN "ok" ELSE "fail",
                     r.msg, None, r.id, 0)
     /\ UNCHANGED << userType, userStatus, wallet, txs, cust, vipRec, orders,
                     orderItems, complaints, repScore, repEvents, repTotals, compliments, staff, dishStats, orderRatings, sess, bids,
                     courier, now >>

(***************************************************************************)
(* api/chef.py update_order_status: the chef moves an order to preparing   *)
(* or to ready_for_delivery; the latter creates the delivery listing.      *)
(***************************************************************************)
ChefStatuses == {"preparing", "ready_for_delivery", "completed"}

\* the chef handler accepting READY_FOR_DELIVERY from PLACED as well
ChefUpdateStatusSkipsPreparing(order_id, new_status) ==
  LET fail(msg) == /\ last' = Failed("chef_update_status", msg)
                   /\ UNCHANGED << db, sess, now >>
  IN
  IF order_id \notin DOMAIN orders THEN fail("order_not_found")
  ELSE IF new_status = "preparing" /\ orders[order_id].status # "placed"
  THEN fail("not_placed")
  ELSE IF new_status = "ready_for_delivery"
          /\ orders[order_id].status \notin {"placed", "preparing"}
  THEN fail("not_preparing")
  ELSE IF new_status \notin {"preparing", "ready_for_delivery"}
  THEN fail("invalid_transition")
  ELSE
    LET os1 == UpdateOrderStatus(orders, order_id, new_status)
        r == CreateListing(deliveries, os1, order_id,
                           orders[order_id].delivery_fee, BiddingDurationMinutes)
    IN /\ orders' = os1
       /\ deliveries' = IF new_status = "ready_for_delivery"
                        THEN r.deliveries ELSE deliveries
       /\ last' = Call("chef_update_status", "ok", new_status, None, order_id, 0)
       /\ UNCHANGED << userType, userStatus, wallet, txs, cust, vipRec,
                       orderItems, complaints, repScore, repEvents, repTotals, compliments, staff, dishStats, orderRatings, sess, bids,
                       courier, now >>

ChefUpdateStatus(order_id, new_status) ==
  LET fail(msg) == /\ last' = Failed("chef_update_status", msg)
                   /\ UNCHANGED << db, sess, now >>
  IN
  IF order_id \notin DOMAIN orders THEN fail("order_not_found")
  ELSE IF new_status = "preparing" /\ orders[order_id].status # "placed"
  THEN fail("not_placed")
  ELSE IF new_status = "ready_for_delivery"
          /\ orders[order_id].status # "preparing"
  THEN fail("not_preparing")
  ELSE IF new_status \notin {"preparing", "ready_for_delivery"}
  THEN fail("invalid_transition")
  ELSE
    LET os1 == UpdateOrderStatus(orders, order_id, new_status)
        r == CreateListing(deliveries, os1, order_id,
                           orders[order_id].delivery_fee, BiddingDurationMinutes)
    IN /\ orders' = os1
       /\ deliveries' = IF new_status = "ready_for_delivery"
                        THEN r.deliveries ELSE deliveries
       /\ last' = Call("chef_update_status", "ok", new_status, None, order_id, 0)
       /\ UNCHANGED << userType, userStatus, wallet, txs, cust, vipRec,
                       orderItems, complaints, repScore, repEvents, repTotals, compliments, staff, dishStats, orderRatings, sess, bids,
                       courier, now >>

(***************************************************************************)
(* DeliveryService.place_bid, behind the availability check of the         *)
(* api/delivery.py place_bid handler.                                      *)
(***************************************************************************)
BidAmounts == {400, 500}

BiddingClosed(d) == now > deliveries[d].bidding_ends_at

\* the existing-bid query filtered on status == PENDING
ExistingBidsPendingOnly(d, p) ==
  { b \in DOMAIN bids : /\ bids[b].delivery_id = d
                        /\ bids[b].delivery_person_id = p
                        /\ bids[b].status = "pending" }

ExistingBids(d, p) ==
  { b \in DOMAIN bids : bids[b].delivery_id = d /\ bids[b].delivery_person_id = p }

PlaceBid(d, p, bid_amount) ==
  LET fail(msg) == /\ last' = Failed("place_bid", msg)
                   /\ UNCHANGED << db, sess, now >>
  IN
  IF ~courier[p].is_available THEN fail("courier_unavailable")
  ELSE IF d \notin DOMAIN deliveries THEN fail("delivery_not_found")
  ELSE IF BiddingClosed(d) THEN fail("bidding_ended")
  ELSE IF ExistingBids(d, p) # {} THEN fail("already_bid")
  ELSE /\ Len(bids) < MaxBids
       /\ bids' = Append(bids, [delivery_id |-> d, delivery_person_id |-> p,
                                bid_amount |-> bid_amount, status |-> "pending",
                                created_at |-> now])
       /\ last' = Call("place_bid", "ok", "placed", p, d, bid_amount)
       /\ UNCHANGED << userType, userStatus, wallet, txs, cust, vipRec, orders,
                       orderItems, complaints, repScore, repEvents, repTotals, compliments, staff, dishStats, orderRatings, sess, deliveries,
                       courier, now >>

(***************************************************************************)
(* DeliveryService.assign_agent                                            *)
(***************************************************************************)
Justifications == {None, "", "memo"}

\* `justification is None` in place of `not justification`
HasJustificationNotNone(j) == j # None

\* Python truthiness of the justification argument
HasJustification(j) == j # None /\ j # ""

PendingBids(d) ==
  { b \in DOMAIN bids : bids[b].delivery_id = d /\ bids[b].status = "pending" }

\* sorted(bids, key=(bid_amount, -created_at)): latest first among equals
BidBeforeLatestFirst(a, b) ==
  \/ bids[a].bid_amount < bids[b].bid_amount
  \/ /\ bids[a].bid_amount = bids[b].bid_amount
     /\ bids[a].created_at > bids[b].created_at
  \/ /\ bids[a].bid_amount = bids[b].bid_amount
     /\ bids[a].created_at = bids[b].created_at
     /\ a < b

\* the order of sorted(bids, key=(bid_amount, created_at)): the sort is
\* stable, so bids with equal keys keep the order of the query (by id)
BidBefore(a, b) ==
  \/ bids[a].bid_amount < bids[b].bid_amount
  \/ /\ bids[a].bid_amount = bids[b].bid_amount
     /\ bids[a].created_at < bids[b].created_at
  \/ /\ bids[a].bid_amount = bids[b].bid_amount
     /\ bids[a].created_at = bids[b].created_at
     /\ a < b

LowestBid(S) == CHOOSE b \in S : \A c \in S \ {b} : BidBefore(b, c)

\* next(b for b in bids if b.delivery_person_id == override), 0 when absent
OverrideBid(S, p) ==
  IF \E b \in S : bids[b].delivery_person_id = p
  THEN Min({ b \in S : bids[b].delivery_person_id = p })
  ELSE 0

\* accept one bid of S and reject the others of S
AcceptBid(S, winner) ==
  [ b \in DOMAIN bids |->
      IF b = winner THEN [bids[b] EXCEPT !.status = "accepted"]
      ELSE IF b \in S THEN [bids[b] EXCEPT !.status = "rejected"]
      ELSE bids[b] ]

AssignAgent(order_id, override, justification) ==
  LET fail(msg) == /\ last' = Failed("assign_agent", msg)
                   /\ UNCHANGED << db, sess, now >>
  IN
  IF order_id \notin DOMAIN orders THEN fail("order_not_found")
  ELSE IF DeliveryOf(deliveries, order_id) = {} THEN fail("delivery_not_found")
  ELSE
    LET d == Min(DeliveryOf(deliveries, order_id))
        pending == PendingBids(d)
    IN
    IF pending = {}
    THEN /\ deliveries' = [deliveries EXCEPT ![d].status = "no_bidders"]
         /\ orders' = [orders EXCEPT ![order_id].status = "ready_for_delivery"]
         /\ last' = Failed("assign_agent", "no_bids")
         /\ UNCHANGED << userType, userStatus, wallet, txs, cust, vipRec,
                         orderItems, complaints, repScore, repEvents, repTotals, compliments, staff, dishStats, orderRatings, sess, bids,
                         courier, now >>
    ELSE
      LET lowest_bid == LowestBid(pending)
          override_bid == IF override = None THEN 0
                          ELSE OverrideBid(pending, override)
          winner == IF override = None THEN lowest_bid ELSE override_bid
      IN
      IF /\ override # None
         /\ override_bid # 0
         /\ bids[override_bid].bid_amount > bids[lowest_bid].bid_amount
         /\ ~HasJustification(justification)
      THEN fail("justification_required")
      ELSE IF override # None /\ override_bid = 0
      THEN fail("override_has_no_bid")
      ELSE
        LET chosen == bids[winner].delivery_person_id
        IN /\ bids' = AcceptBid(pending, winner)
           /\ deliveries' =
                [deliveries EXCEPT
                   ![d].delivery_person_id = chosen,
                   ![d].assignment_type =
                      IF override = None THEN "auto_assign"
                      ELSE "manager_override",
                   ![d].winning_bid_amount = bids[winner].bid_amount,
                   ![d].manager_justification =
                      IF override = None THEN @ ELSE justification,
                   ![d].status = "assigned"]
           /\ orders' = [orders EXCEPT
                           ![order_id].status = "assigned_for_delivery"]
           /\ courier' = [courier EXCEPT ![chosen].is_available = FALSE]
           /\ last' = Call("assign_agent", "ok",
                           IF override = None THEN "auto_assign"
                           ELSE "manager_override",
                           chosen, order_id, bids[winner].bid_amount)
           /\ UNCHANGED << userType, userStatus, wallet, txs, cust, vipRec,
                           orderItems, complaints, repScore, repEvents, repTotals, compliments, staff, dishStats, orderRatings, sess, now >>

(***************************************************************************)
(* DeliveryService.update_delivery_status, behind the validation of the    *)
(* api/delivery.py update_delivery_status handler (courier p calls).       *)
(***************************************************************************)
DeliveryStatus ==
  { "pending_bidding", "no_bidders", "assigned", "picked_up", "in_transit",
    "delivered", "failed", "cancelled" }

MaxDeliveries == 1

UpdateDeliveryStatus(p, d, new_status) ==
  LET fail(msg) == /\ last' = Failed("update_delivery_status", msg)
                   /\ UNCHANGED << db, sess, now >>
  IN
  IF ~(d \in DOMAIN deliveries /\ deliveries[d].delivery_person_id = p)
  THEN fail("not_assigned_to_you")
  ELSE IF new_status = "picked_up" /\ deliveries[d].status # "assigned"
  THEN fail("not_assigned")
  ELSE IF new_status = "delivered"
          /\ deliveries[d].status \notin {"picked_up", "in_transit"}
  THEN fail("not_picked_up")
  ELSE
    LET o == deliveries[d].order_id
    IN /\ new_status = "delivered" => courier[p].total_deliveries < MaxDeliveries
       /\ deliveries' = [deliveries EXCEPT ![d].status = new_status]
       /\ courier' = IF new_status = "delivered"
                     THEN [courier EXCEPT ![p].is_available = TRUE,
                                          ![p].total_deliveries = @ + 1]
                     ELSE courier
       /\ orders' = IF new_status = "picked_up"
                    THEN UpdateOrderStatus(orders, o, "in_transit")
                    ELSE IF new_status = "delivered"
                    THEN UpdateOrderStatus(orders, o, "delivered")
                    ELSE orders
       /\ last' = Call("update_delivery_status", "ok", new_status, p, d, 0)
       /\ UNCHANGED << userType, userStatus, wallet, txs, cust, vipRec,
                       orderItems, complaints, repScore, repEvents, repTotals, compliments, staff, dishStats, orderRatings, sess, bids, now >>

(***************************************************************************)
(* The clock advances between calls.                                       *)
(***************************************************************************)
Tick ==
  /\ now < MaxTime
  /\ now' = now + TickStep
  /\ UNCHANGED << db, sess, last >>

(***************************************************************************)
(* The reputation operations.  Each of them goes through record_event,     *)
(* which raises for every user that has a User row; what follows the call  *)
(* is therefore written for the calls that return from it.                 *)
(***************************************************************************)
MaxEvents == 2
WarningThresholdDeregister == 3
WarningThresholdVipDemotion == 2

\* `complaints_count >= 3` in check_staff_performance
ComplaintsForDemotion == 3
BlacklistReputationThreshold == -50
VipReputationThreshold == 100

\* ReputationService.record_event, called directly.
CallRecordEvent(u, event_type) ==
  LET ev == RecordEvent(u, event_type)
  IN IF ev.raises
     THEN Abort("record_event", "NameError")
     ELSE /\ Len(repEvents) < MaxEvents
          /\ repEvents' = ev.events
          /\ repScore' = ev.score
          /\ repTotals' = ev.totals
          /\ last' = Call("record_event", "ok", event_type, u, 0, 0)
          /\ UNCHANGED << userType, userStatus, wallet, txs, cust, vipRec,
                          orders, orderItems, complaints, compliments, staff, dishStats, orderRatings, sess,
                          deliveries, bids, courier, now >>

\* weight = 2 if the filing customer is a VIP, else 1
Weight(u) == IF u \in DOMAIN cust /\ cust[u].is_vip THEN 2 ELSE 1

\* ReputationService.file_complaint
FileComplaint(complainant, subject) ==
  LET ev == RecordEvent(subject, "COMPLAINT")
  IN IF ev.raises
     THEN Abort("file_complaint", "NameError")
     ELSE /\ Len(repEvents) < MaxEvents
          /\ complaints' = Append(complaints,
                                  [complainant_id |-> complainant,
                                   subject_id |-> subject,
                                   weight |-> Weight(complainant),
                                   status |-> "pending",
                                   is_disputed |-> FALSE])
          /\ repEvents' = ev.events
          /\ repScore' = ev.score
          /\ repTotals' = ev.totals
          /\ last' = Call("file_complaint", "ok", "", subject, 0, 0)
          /\ UNCHANGED << userType, userStatus, wallet, txs, cust, vipRec,
                          orders, orderItems, compliments, staff, dishStats, orderRatings, sess, deliveries, bids,
                          courier, now >>

\* _cancel_complaint_with_compliment: the first pending complaint against
\* the user becomes resolved.
CancelComplaintWithCompliment(u) ==
  LET pending == { i \in DOMAIN complaints :
                     /\ complaints[i].subject_id = u
                     /\ complaints[i].status = "pending" }
  IN IF pending = {} THEN complaints
     ELSE [complaints EXCEPT ![Min(pending)].status = "resolved"]

\* ReputationService.file_compliment.  The staff review that ends it returns
\* at once for an id without a User row.
FileCompliment(giver, receiver) ==
  LET ev == RecordEvent(receiver, "COMPLIMENT")
  IN IF ev.raises
     THEN Abort("file_compliment", "NameError")
     ELSE /\ Len(repEvents) < MaxEvents
          /\ compliments' = Append(compliments,
                                   [giver_id |-> giver,
                                    receiver_id |-> receiver,
                                    weight |-> Weight(giver)])
          /\ repEvents' = ev.events
          /\ repScore' = ev.score
          /\ repTotals' = ev.totals
          /\ complaints' = CancelComplaintWithCompliment(receiver)
          /\ last' = Call("file_compliment", "ok", "", receiver, 0, 0)
          /\ UNCHANGED << userType, userStatus, wallet, txs, cust, vipRec,
                          orders, orderItems, staff, dishStats, orderRatings,
                          sess, deliveries, bids, courier, now >>

\* ReputationService.apply_warning, with _demote_from_vip
ApplyWarning(u) ==
  LET ev == RecordEvent(u, "WARNING")
      warning_count == ev.totals[u].warnings
      deregister == warning_count >= WarningThresholdDeregister /\ u \in Users
      demote == /\ u \in DOMAIN cust
                /\ cust[u].is_vip
                /\ warning_count >= WarningThresholdVipDemotion
  IN IF ev.raises
     THEN Abort("apply_warning", "NameError")
     ELSE /\ Len(repEvents) < MaxEvents
          /\ repEvents' = ev.events
          /\ repScore' = ev.score
          /\ repTotals' = IF demote THEN [ev.totals EXCEPT ![u].warnings = 0]
                          ELSE ev.totals
          /\ userStatus' = IF deregister
                           THEN [userStatus EXCEPT ![u] = "deactivated"]
                           ELSE userStatus
          /\ cust' = IF demote
                     THEN [cust EXCEPT ![u].is_vip = FALSE,
                                       ![u].vip_orders_count = 0]
                     ELSE cust
          /\ userType' = IF demote THEN [userType EXCEPT ![u] = "customer"]
                         ELSE userType
          /\ last' = Call("apply_warning", "ok", "", u, 0, 0)
          /\ UNCHANGED << wallet, txs, vipRec, orders, orderItems, complaints,
                          compliments, staff, dishStats, orderRatings, sess, deliveries, bids, courier, now >>

(***************************************************************************)
(* OrderService.create_order as two database sessions run it.  The rows a  *)
(* session has loaded stay as loaded until its commit (the identity map    *)
(* does not refresh them), and its UPDATE writes the columns it changed,   *)
(* with the values computed from the loaded ones.  The first step ends     *)
(* after the funds test on the loaded wallet; the second is the flush of   *)
(* the order, process_payment and the rest of the call, which SQLite runs  *)
(* under its write lock.                                                   *)
(***************************************************************************)
CreateOrderBegin(p, c, cart) ==
  /\ sess[p] = Idle
  /\ IF \/ Len(cart) = 0
        \/ VipOnlyReject(c, cart)
        \/ Len(AvailableItems(cart)) = 0
        \/ c \notin DOMAIN wallet
        \/ InsufficientFunds(c, cart)
     THEN \* the call ends before any write
          CreateOrder(c, cart)
     ELSE /\ sess' = [sess EXCEPT ![p] =
                        [pc |-> "create_order", c |-> c, cart |-> cart,
                         wallet |-> wallet[c], cust |-> cust[c],
                         vipRec |-> vipRec[c],
                         subtotal |-> TotalAmount(cart),
                         discount_amount |-> DiscountAmount(c, cart),
                         delivery_fee |-> DeliveryFee(c),
                         final_amount |-> FinalAmount(c, cart),
                         is_free_delivery |-> IsFreeDelivery(c)]]
          /\ last' = Call("create_order", "begin", "", c, 0, FinalAmount(c, cart))
          /\ UNCHANGED << db, now >>

\* The columns of a row that the session changed, written over the stored row.
WriteChanged(stored, loaded, changed) ==
  [f \in DOMAIN stored |-> IF changed[f] # loaded[f] THEN changed[f]
                           ELSE stored[f]]

CreateOrderCommit(p) ==
  LET s == sess[p]
      c == s.c
      available_items == AvailableItems(s.cart)
      final_amount == s.final_amount
      oid == Len(orders) + 1
      order0 == [customer_id |-> c, status |-> "pending_payment",
                 payment_status |-> "pending", subtotal |-> s.subtotal,
                 discount_amount |-> s.discount_amount,
                 total_amount |-> final_amount, delivery_fee |-> s.delivery_fee,
                 is_vip_order |-> s.cust.is_vip,
                 is_free_delivery |-> s.is_free_delivery]
      items1 == orderItems \o
                  [i \in 1..Len(available_items) |->
                     [order_id |-> oid, dish_id |-> available_items[i].dish_id,
                      quantity |-> available_items[i].quantity,
                      unit_price |-> Dishes[available_items[i].dish_id].price]]
      \* the session's rows: as loaded
      w == [wallet EXCEPT ![c] = s.wallet]
      cu == [cust EXCEPT ![c] = s.cust]
      used1 == IF s.is_free_delivery
               THEN [s.vipRec EXCEPT !.free_deliveries_used = @ + 1]
               ELSE s.vipRec
      pay == ProcessPayment(oid, c, final_amount, w, txs, cu)
      \* process_payment commits: the stored rows after it
      walletPaid == WriteChanged(wallet[c], s.wallet, pay.wallet[c])
      custPaid == WriteChanged(cust[c], s.cust, pay.cust[c])
      vipPaid == WriteChanged(vipRec[c], s.vipRec, used1)
      \* the rest of create_order works on the rows reloaded after that commit
      vipNow == custPaid.is_vip
      count1 == custPaid.vip_orders_count + 1
      earns == vipNow /\ count1 % 3 = 0
      cust2 == [custPaid EXCEPT
                  !.total_orders = @ + 1,
                  !.total_spent = @ + final_amount,
                  !.vip_orders_count = IF vipNow THEN count1 ELSE @]
  IN
  /\ s.pc = "create_order"
  /\ Len(orders) < MaxOrders
  /\ Len(txs) < MaxTx
  /\ sess' = [sess EXCEPT ![p] = Idle]
  /\ orderItems' = items1
  /\ txs' = pay.txs
  /\ IF ~pay.ok
     THEN /\ orders' = Append(orders, [order0 EXCEPT !.status = "rejected",
                                           !.payment_status = "failed"])
          /\ wallet' = wallet
          /\ cust' = cust
          /\ vipRec' = [vipRec EXCEPT ![c] = vipPaid]
          /\ last' = Failed("create_order", "payment_failed")
     ELSE IF earns /\ ~vipPaid.exists
     THEN /\ orders' = Append(orders, [order0 EXCEPT !.payment_status = "paid"])
          /\ wallet' = [wallet EXCEPT ![c] = walletPaid]
          /\ cust' = [cust EXCEPT ![c] = custPaid]
          /\ vipRec' = [vipRec EXCEPT ![c] = vipPaid]
          /\ last' = Raised("create_order", "TypeError")
     ELSE /\ orders' = Append(orders, [order0 EXCEPT !.status = "placed",
                                           !.payment_status = "paid"])
          /\ wallet' = [wallet EXCEPT ![c] = walletPaid]
          /\ cust' = [cust EXCEPT ![c] = cust2]
          /\ vipRec' = [vipRec EXCEPT ![c] =
                          IF earns
                          THEN [vipPaid EXCEPT !.free_deliveries_earned = @ + 1]
                          ELSE vipPaid]
          /\ last' = Call("create_order", "ok", "created", c, oid, final_amount)
  /\ UNCHANGED << userType, userStatus, complaints, repScore, repEvents,
                  repTotals, compliments, staff, dishStats, orderRatings,
                  deliveries, bids, courier, now >>

(***************************************************************************)
(* DeliveryService.assign_agent as two database sessions run it: the first *)
(* step loads the order, the listing and its pending bids, the second      *)
(* chooses among the bids it loaded, writes and commits.                   *)
(***************************************************************************)
AssignAgentLoad(p, order_id, override, justification) ==
  /\ sess[p] = Idle
  /\ IF order_id \notin DOMAIN orders \/ DeliveryOf(deliveries, order_id) = {}
     THEN \* the call ends before any write
          AssignAgent(order_id, override, justification)
     ELSE LET d == Min(DeliveryOf(deliveries, order_id))
          IN /\ sess' = [sess EXCEPT ![p] =
                           [pc |-> "assign_agent", order_id |-> order_id,
                            override |-> override,
                            justification |-> justification,
                            d |-> d, order |-> orders[order_id],
                            delivery |-> deliveries[d],
                            pending |-> PendingBids(d)]]
             /\ last' = Call("assign_agent", "begin", "", override, order_id, 0)
             /\ UNCHANGED << db, now >>

AssignAgentWrite(p) ==
  LET s == sess[p]
      d == s.d
      order_id == s.order_id
      pending == s.pending
      fail(msg) == /\ last' = Failed("assign_agent", msg)
                   /\ UNCHANGED << db, now >>
  IN
  /\ s.pc = "assign_agent"
  /\ sess' = [sess EXCEPT ![p] = Idle]
  /\ IF pending = {}
     THEN /\ deliveries' =
               [deliveries EXCEPT ![d] =
                  WriteChanged(@, s.delivery,
                               [s.delivery EXCEPT !.status = "no_bidders"])]
          /\ orders' =
               [orders EXCEPT ![order_id] =
                  WriteChanged(@, s.order,
                               [s.order EXCEPT !.status = "ready_for_delivery"])]
          /\ last' = Failed("assign_agent", "no_bids")
          /\ UNCHANGED << userType, userStatus, wallet, txs, cust, vipRec,
                          orderItems, complaints, repScore, repEvents,
                          repTotals, compliments, staff, dishStats,
                          orderRatings, bids, courier, now >>
     ELSE
       LET lowest_bid == LowestBid(pending)
           override_bid == IF s.override = None THEN 0
                           ELSE OverrideBid(pending, s.override)
           winner == IF s.override = None THEN lowest_bid ELSE override_bid
       IN
       IF /\ s.override # None
          /\ override_bid # 0
          /\ bids[override_bid].bid_amount > bids[lowest_bid].bid_amount
          /\ ~HasJustification(s.justification)
       THEN fail("justification_required")
       ELSE IF s.override # None /\ override_bid = 0
       THEN fail("override_has_no_bid")
       ELSE
         LET chosen == bids[winner].delivery_person_id
         IN /\ bids' = AcceptBid(pending, winner)
            /\ deliveries' =
                 [deliveries EXCEPT ![d] =
                    WriteChanged(@, s.delivery,
                      [s.delivery EXCEPT
                         !.delivery_person_id = chosen,
                         !.assignment_type =
                            IF s.override = None THEN "auto_assign"
                            ELSE "manager_override",
                         !.winning_bid_amount = bids[winner].bid_amount,
                         !.manager_justification =
                            IF s.override = None THEN @ ELSE s.justification,
                         !.status = "assigned"])]
            /\ orders' =
                 [orders EXCEPT ![order_id] =
                    WriteChanged(@, s.order,
                      [s.order EXCEPT !.status = "assigned_for_delivery"])]
            /\ courier' = [courier EXCEPT ![chosen].is_available = FALSE]
            /\ last' = Call("assign_agent", "ok",
                            IF s.override = None THEN "auto_assign"
                            ELSE "manager_override",
                            chosen, order_id, bids[winner].bid_amount)
            /\ UNCHANGED << userType, userStatus, wallet, txs, cust, vipRec,
                            orderItems, complaints, repScore, repEvents,
                            repTotals, compliments, staff, dishStats,
                            orderRatings, now >>

(***************************************************************************)
(* The GET /{user_id}/reputation handler, which creates the missing row.   *)
(***************************************************************************)
GetUserReputation(u) ==
  /\ repTotals' = [repTotals EXCEPT ![u].exists = TRUE]
  /\ last' = Call("get_user_reputation", "ok", "", u, 0, repScore[u])
  /\ UNCHANGED << userType, userStatus, wallet, txs, cust, vipRec, orders,
                  orderItems, complaints, repScore, repEvents, compliments,
                  staff, dishStats, orderRatings, sess, deliveries, bids,
                  courier, now >>

(***************************************************************************)
(* ReputationService.record_event as two database sessions run it: the     *)
(* first step loads the Reputation row (or finds none), the second         *)
(* inserts the missing row, adds the event, writes the score and the       *)
(* counters computed from the loaded row, and commits.  The row's user_id  *)
(* is unique: inserting a second row for it raises IntegrityError.         *)
(***************************************************************************)
RecordEventLoad(p, u, event_type) ==
  /\ sess[p] = Idle
  /\ sess' = [sess EXCEPT ![p] =
                [pc |-> "record_event", u |-> u, event_type |-> event_type,
                 score |-> repScore[u], totals |-> repTotals[u]]]
  /\ last' = Call("record_event", "begin", event_type, u, 0, 0)
  /\ UNCHANGED << db, now >>

RecordEventWrite(p) ==
  LET s == sess[p]
      u == s.u
      e == EventEnum(s.event_type)
      d == CalculateScoreChange(e)
      changed == [s.totals EXCEPT
                    !.exists = TRUE,
                    !.complaints = IF e = "COMPLAINT" THEN @ + 1 ELSE @,
                    !.compliments = IF e = "COMPLIMENT" THEN @ + 1 ELSE @,
                    !.warnings = IF e = "WARNING" THEN @ + 1 ELSE @]
  IN
  /\ s.pc = "record_event"
  /\ sess' = [sess EXCEPT ![p] = Idle]
  /\ IF ~s.totals.exists /\ repTotals[u].exists
     THEN /\ last' = Raised("record_event", "IntegrityError")
          /\ UNCHANGED << db, now >>
     ELSE IF (u \in Users) /\ ~ReputationServiceImportsUserType
     THEN /\ last' = Raised("record_event", "NameError")
          /\ UNCHANGED << db, now >>
     ELSE /\ Len(repEvents) < MaxEvents
          /\ repEvents' = Append(repEvents,
                                 [user_id |-> u, event_type |-> e,
                                  score_change |-> d,
                                  description |-> s.event_type])
          /\ repScore' = [repScore EXCEPT ![u] =
                            IF s.score + d # s.score THEN s.score + d ELSE @]
          /\ repTotals' = [repTotals EXCEPT ![u] =
                             WriteChanged(@, s.totals, changed)]
          /\ last' = Call("record_event", "ok", s.event_type, u, 0, 0)
          /\ UNCHANGED << userType, userStatus, wallet, txs, cust, vipRec,
                          orders, orderItems, complaints, compliments, staff,
                          dishStats, orderRatings, deliveries, bids, courier,
                          now >>

(***************************************************************************)
(* OrderService.rate_order.  Item ratings are applied first, without a     *)
(* range check; the overall food rating is range-checked and, when no item *)
(* ratings were passed, applied to the dish of every item of the order;    *)
(* the delivery rating is range-checked and folded into the courier's      *)
(* average with total_deliveries as the count.  A rejected rating returns  *)
(* before the commit, so nothing the call changed is stored.               *)
(***************************************************************************)
MaxRatings == 2

\* an optional rating that was not passed (None)
NoRating == -1

\* dish.rating_count += 1; dish.average_rating = (total + rating) / count
RateDishKeepsCount(stats, d, rating) ==
  [stats EXCEPT ![d] =
     [average_rating |-> NextAverage(@.average_rating, @.rating_count,
                                     rating, @.rating_count + 1),
      rating_count |-> @.rating_count]]

RateDish(stats, d, rating) ==
  [stats EXCEPT ![d] =
     [average_rating |-> NextAverage(@.average_rating, @.rating_count,
                                     rating, @.rating_count + 1),
      rating_count |-> @.rating_count + 1]]

\* f with f[k] set to v, k added to the domain when missing
Put(f, k, v) == [i \in DOMAIN f \cup {k} |-> IF i = k THEN v ELSE f[i]]

\* the ids of the OrderItem rows of an order, in insertion order
ItemsOf(order_id) ==
  SelectSeq([i \in 1..Len(orderItems) |-> i],
            LAMBDA i : orderItems[i].order_id = order_id)

\* the loop over item_ratings, from entry i on
RECURSIVE ApplyItemRatings(_, _, _, _)
ApplyItemRatings(acc, order_id, item_ratings, i) ==
  IF i > Len(item_ratings) THEN acc
  ELSE
    LET item_id == item_ratings[i].order_item_id
        rating_val == item_ratings[i].rating
        found == item_id # 0 /\ rating_val # 0
                 /\ \E k \in 1..Len(ItemsOf(order_id)) :
                      ItemsOf(order_id)[k] = item_id
        acc1 == IF found
                THEN [stats |-> RateDish(acc.stats,
                                         orderItems[item_id].dish_id,
                                         rating_val),
                      item |-> Put(acc.item, item_id, rating_val)]
                ELSE acc
    IN ApplyItemRatings(acc1, order_id, item_ratings, i + 1)

\* the loop over order.items for the overall food rating, from item k on
RECURSIVE ApplyFoodRating(_, _, _, _)
ApplyFoodRating(stats, items, food_rating, k) ==
  IF k > Len(items) THEN stats
  ELSE ApplyFoodRating(RateDish(stats, orderItems[items[k]].dish_id,
                                food_rating),
                       items, food_rating, k + 1)

RateOrder(order_id, food_rating, delivery_rating, item_ratings) ==
  LET fail(msg) == /\ last' = Failed("rate_order", msg)
                   /\ UNCHANGED << db, sess, now >>
      \* `if item_ratings:` is false for None and for the empty list
      has_items == Len(item_ratings) > 0
      acc0 == [stats |-> dishStats, item |-> orderRatings.item]
      acc1 == IF has_items
              THEN ApplyItemRatings(acc0, order_id, item_ratings, 1)
              ELSE acc0
      stats2 == IF food_rating # NoRating /\ ~has_items
                THEN ApplyFoodRating(acc1.stats, ItemsOf(order_id),
                                     food_rating, 1)
                ELSE acc1.stats
      ds == DeliveryOf(deliveries, order_id)
      d == CHOOSE x \in ds : TRUE
      driver == IF ds # {} THEN deliveries[d].delivery_person_id ELSE None
      \* max(1, driver.total_deliveries)
      count == IF driver # None /\ courier[driver].total_deliveries > 1
               THEN courier[driver].total_deliveries ELSE 1
  IN
  IF order_id \notin DOMAIN orders THEN fail("order_not_found")
  ELSE IF food_rating # NoRating /\ ~(1 <= food_rating /\ food_rating <= 5)
  THEN fail("food_rating_range")
  ELSE IF delivery_rating # NoRating
          /\ ~(1 <= delivery_rating /\ delivery_rating <= 5)
  THEN fail("delivery_rating_range")
  ELSE
    /\ \A x \in DOMAIN stats2 : stats2[x].rating_count <= MaxRatings
    /\ dishStats' = stats2
    /\ orderRatings' =
         [food |-> IF food_rating # NoRating
                   THEN Put(orderRatings.food, order_id, food_rating)
                   ELSE orderRatings.food,
          delivery |-> IF delivery_rating # NoRating
                       THEN Put(orderRatings.delivery, order_id, delivery_rating)
                       ELSE orderRatings.delivery,
          item |-> acc1.item]
    /\ staff' = IF delivery_rating # NoRating /\ driver # None
                THEN [staff EXCEPT ![driver].average_rating =
                        NextAverage(@, count, delivery_rating, count + 1)]
                ELSE staff
    /\ last' = Call("rate_order", "ok", "", None, order_id, food_rating)
    /\ UNCHANGED << userType, userStatus, wallet, txs, cust, vipRec, orders,
                    orderItems, complaints, repScore, repEvents, repTotals,
                    compliments, sess, deliveries, bids, courier, now >>

(***************************************************************************)
(* The PUT /{order_id}/rate handler.  After its checks it reads            *)
(* rating.items, a field the OrderRating schema does not declare.          *)
(***************************************************************************)
RateOrderHandler(c, order_id) ==
  LET fail(msg) == /\ last' = Failed("rate_order_handler", msg)
                   /\ UNCHANGED << db, sess, now >>
  IN
  IF ~(order_id \in DOMAIN orders /\ orders[order_id].customer_id = c)
  THEN fail("order_not_found")
  ELSE IF orders[order_id].status \notin {"delivered", "completed"}
  THEN fail("not_completed")
  ELSE Abort("rate_order_handler", "AttributeError")

(***************************************************************************)
(* The complaint handlers: api/reputation.py dispute_complaint and         *)
(* manager_decide_complaint, api/manager.py resolve_complaint.  None of    *)
(* them reads the status the complaint has before writing the new one.     *)
(***************************************************************************)
\* The ids a request names: those of the rows and one that is never a row.
ComplaintIds == 1 .. (Len(SeedComplaints) + MaxEvents + 1)

\* ManagerComplaintDecision.action is a free string; "dismiss" is none of
\* the four the handler knows.
DecisionActions ==
  {"resolve", "reject", "warn_complainant", "warn_subject", "dismiss"}

\* dispute_complaint, called by the active user u
DisputeComplaint(u, complaint_id) ==
  LET fail(msg) == /\ last' = Failed("dispute_complaint", msg)
                   /\ UNCHANGED << db, sess, now >>
  IN
  IF complaint_id \notin DOMAIN complaints
  THEN fail("complaint_not_found")
  ELSE IF complaints[complaint_id].subject_id # u
  THEN fail("not_the_subject")
  ELSE IF complaints[complaint_id].is_disputed
  THEN fail("already_disputed")
  ELSE /\ complaints' = [complaints EXCEPT ![complaint_id].is_disputed = TRUE,
                                           ![complaint_id].status = "disputed"]
       /\ last' = Call("dispute_complaint", "ok", "", u, complaint_id, 0)
       /\ UNCHANGED << userType, userStatus, wallet, txs, cust, vipRec,
                       orders, orderItems, repScore, repEvents, repTotals,
                       compliments, staff, dishStats, orderRatings, sess,
                       deliveries, bids, courier, now >>

\* manager_decide_complaint.  The two warning actions call apply_warning
\* after setting the status; when it raises, the status is not written.
ManagerDecideComplaint(complaint_id, action) ==
  LET fail(msg) == /\ last' = Failed("manager_decide_complaint", msg)
                   /\ UNCHANGED << db, sess, now >>
      decided(st) == [complaints EXCEPT ![complaint_id].status = st]
      ok == last' = Call("manager_decide_complaint", "ok", action, None,
                         complaint_id, 0)
      \* apply_warning(u) inside the handler's session
      warn(u, st) ==
        LET ev == RecordEvent(u, "WARNING")
            warning_count == ev.totals[u].warnings
            deregister == warning_count >= WarningThresholdDeregister
                          /\ u \in Users
            demote == /\ u \in DOMAIN cust
                      /\ cust[u].is_vip
                      /\ warning_count >= WarningThresholdVipDemotion
        IN IF ev.raises
           THEN Abort("manager_decide_complaint", "NameError")
           ELSE /\ Len(repEvents) < MaxEvents
                /\ complaints' = decided(st)
                /\ repEvents' = ev.events
                /\ repScore' = ev.score
                /\ repTotals' = IF demote
                                THEN [ev.totals EXCEPT ![u].warnings = 0]
                                ELSE ev.totals
                /\ userStatus' = IF deregister
                                 THEN [userStatus EXCEPT ![u] = "deactivated"]
                                 ELSE userStatus
                /\ cust' = IF demote
                           THEN [cust EXCEPT ![u].is_vip = FALSE,
                                             ![u].vip_orders_count = 0]
                           ELSE cust
                /\ userType' = IF demote
                               THEN [userType EXCEPT ![u] = "customer"]
                               ELSE userType
                /\ ok
                /\ UNCHANGED << wallet, txs, vipRec, orders, orderItems,
                                compliments, staff, dishStats, orderRatings,
                                sess, deliveries, bids, courier, now >>
      status_only(st) ==
        /\ complaints' = decided(st)
        /\ ok
        /\ UNCHANGED << userType, userStatus, wallet, txs, cust, vipRec,
                        orders, orderItems, repScore, repEvents, repTotals,
                        compliments, staff, dishStats, orderRatings, sess,
                        deliveries, bids, courier, now >>
  IN
  IF complaint_id \notin DOMAIN complaints
  THEN fail("complaint_not_found")
  ELSE IF action = "resolve" THEN status_only("resolved")
  ELSE IF action = "reject" THEN status_only("rejected")
  ELSE IF action = "warn_complainant"
  THEN warn(complaints[complaint_id].complainant_id, "rejected")
  ELSE IF action = "warn_subject"
  THEN warn(complaints[complaint_id].subject_id, "resolved")
  ELSE fail("invalid_action")

\* max(1.0, average_rating - 0.5)
PenalizedRating(average) ==
  IF 2 * average.n - average.d > 2 * average.d
  THEN Rat(2 * average.n - average.d, 2 * average.d)
  ELSE Rat(1, 1)

\* api/manager.py resolve_complaint
ResolveComplaint(complaint_id) ==
  IF complaint_id \notin DOMAIN complaints
  THEN /\ last' = Failed("resolve_complaint", "complaint_not_found")
       /\ UNCHANGED << db, sess, now >>
  ELSE LET subject == complaints[complaint_id].subject_id
       IN /\ complaints' = [complaints EXCEPT ![complaint_id].status = "resolved"]
          /\ staff' = IF /\ subject \in Users
                         /\ userType[subject] \in {"chef", "delivery"}
                         /\ subject \in DOMAIN staff
                      THEN [staff EXCEPT ![subject].average_rating =
                                            PenalizedRating(@)]
                      ELSE staff
          /\ last' = Call("resolve_complaint", "ok", "", None, complaint_id, 0)
          /\ UNCHANGED << userType, userStatus, wallet, txs, cust, vipRec,
                          orders, orderItems, repScore, repEvents, repTotals,
                          compliments, dishStats, orderRatings, sess,
                          deliveries, bids, courier, now >>

(***************************************************************************)
(* Specifications.  Spec runs the wallet ledger, order creation,           *)
(* cancellation and the manager account actions for two customers;         *)
(* SpecDelivery runs one customer's orders through preparation, bidding,   *)
(* assignment and delivery.  OrderIds also holds one id that is never      *)
(* created.                                                                *)
(***************************************************************************)
OrderIds == 1..(LedgerOrders + 1)

\* Spec keeps the ledger of its two customers within LedgerOrders orders and
\* LedgerTx transactions.
LedgerCap == Len(orders') <= LedgerOrders /\ Len(txs') <= LedgerTx

Next ==
  \/ \E u \in Customers, a \in DepositAmounts : DepositMoney(u, a) /\ LedgerCap
  \/ \E c \in Customers, cart \in Carts : CreateOrder(c, cart) /\ LedgerCap
  \/ \E u \in Users : CheckStaffPerformance(u)
  \/ \E o \in OrderIds : RefundOrder(o) /\ LedgerCap
  \/ \E c \in Customers, o \in OrderIds : CancelOrder(c, o) /\ LedgerCap
  \/ \E u \in Users : CloseCustomerAccount(u)
  \/ \E u \in Users : KickCustomer(u)

Spec == Init /\ [][Next]_vars

CourierStatuses == {"picked_up", "in_transit", "delivered"}

\* In SpecDelivery the customer funds the wallet once, which pays for one
\* order: id 1 is that order and its listing (unknown until it is created).
\* The clock starts with the first listing, since only the distance to the
\* bidding deadline and between bids matters.
KnownIds == {1}

NextDelivery ==
  \/ \E a \in DepositAmounts : (a > 0 => txs = << >>) /\ DepositMoney("c1", a)
  \/ CreateOrder("c1", << [dish_id |-> "d1", quantity |-> 1] >>)
  \/ \E o \in KnownIds : RefundOrder(o + 1)
  \/ \E o \in KnownIds : CreateDeliveryListing(o)
  \/ \E o \in KnownIds, st \in ChefStatuses : ChefUpdateStatus(o, st)
  \/ \E d \in KnownIds, p \in Couriers, a \in BidAmounts : PlaceBid(d, p, a)
  \/ \E o \in KnownIds, ov \in Couriers \cup {None}, j \in Justifications :
        AssignAgent(o, ov, j)
  \/ \E p \in Couriers, d \in KnownIds, st \in CourierStatuses :
        UpdateDeliveryStatus(p, d, st)
  \/ deliveries # << >> /\ Tick

SpecDelivery == Init /\ [][NextDelivery]_vars

\* SpecLifecycle takes the one order of customer c1 through the kitchen, the
\* bidding of courier p1, the assignment and the delivery, with the
\* customer cancelling at any point.
NextLifecycle ==
  \/ txs = << >> /\ DepositMoney("c1", 3000)
  \/ CreateOrder("c1", << [dish_id |-> "d1", quantity |-> 1] >>)
  \/ \E o \in KnownIds, st \in ChefStatuses : ChefUpdateStatus(o, st)
  \/ \E o \in KnownIds : CreateDeliveryListing(o)
  \/ \E d \in KnownIds, a \in BidAmounts : PlaceBid(d, "p1", a)
  \/ \E o \in KnownIds : AssignAgent(o, None, None)
  \/ \E d \in KnownIds, st \in CourierStatuses : UpdateDeliveryStatus("p1", d, st)
  \/ \E o \in KnownIds : CancelOrder("c1", o)

SpecLifecycle == Init /\ [][NextLifecycle]_vars

\* SpecVip follows one customer with a large deposit through enough paid
\* orders to become VIP and to order as a VIP.
VipDeposit == 20000

VipCarts ==
  { << [dish_id |-> "d1", quantity |-> 1] >>,
    << [dish_id |-> "d1", quantity |-> 2] >>,
    << [dish_id |-> "d1", quantity |-> 1], [dish_id |-> "d2", quantity |-> 1] >>,
    << [dish_id |-> "d3", quantity |-> 1], [dish_id |-> "d1", quantity |-> 2] >> }

NextVip ==
  \/ \E a \in {0, VipDeposit} : DepositMoney("c1", a)
  \/ \E cart \in VipCarts : CreateOrder("c1", cart)

SpecVip == Init /\ [][NextVip]_vars

\* The event_type strings the callers pass, in either case, and one that is
\* no key of ReputationEventType.
EventTypeArgs == ReputationEventType \cup {"complaint", "warning", "FIRED"}

NextReputation ==
  \/ \E u \in ReputationIds, t \in EventTypeArgs : CallRecordEvent(u, t)
  \/ \E a \in Customers : \E u \in ReputationIds \ {a} : FileComplaint(a, u)
  \/ \E a \in Customers : \E u \in ReputationIds \ {a} : FileCompliment(a, u)
  \/ \E u \in ReputationIds : ApplyWarning(u)
  \/ \E u \in ReputationIds : CheckStaffPerformance(u)
  \/ CreateOrder("c1", << [dish_id |-> "d1", quantity |-> 1] >>)

SpecReputation == Init /\ [][NextReputation]_vars

\* One customer who orders until promoted to VIP, and is then warned.
NextVipReputation ==
  \/ NextVip
  \/ ApplyWarning("c1")

SpecVipReputation == Init /\ [][NextVipReputation]_vars

\* One customer whose orders are placed through two sessions.
ChargeDeposits == {3000, 5000, 8000}
ChargeCarts ==
  { << [dish_id |-> "d1", quantity |-> 1] >>,
    << [dish_id |-> "d1", quantity |-> 2] >> }

NextConcurrentCharge ==
  \/ txs = << >> /\ \E a \in ChargeDeposits : DepositMoney("c1", a)
  \/ \E p \in Sessions, cart \in ChargeCarts : CreateOrderBegin(p, "c1", cart)
  \/ \E p \in Sessions : CreateOrderCommit(p)

SpecConcurrentCharge == Init /\ [][NextConcurrentCharge]_vars

\* One paid order with its listing and the bids of two couriers, assigned
\* through two sessions.
NextConcurrentAssign ==
  \/ txs = << >> /\ DepositMoney("c1", 3000)
  \/ CreateOrder("c1", << [dish_id |-> "d1", quantity |-> 1] >>)
  \/ \E o \in KnownIds : CreateDeliveryListing(o)
  \/ \E d \in KnownIds, c \in Couriers :
        PlaceBid(d, c, IF c = "p1" THEN 400 ELSE 500)
  \/ \E p \in Sessions, o \in KnownIds, ov \in Couriers \cup {None} :
        AssignAgentLoad(p, o, ov, IF ov = None THEN None ELSE "memo")
  \/ \E p \in Sessions : AssignAgentWrite(p)

SpecConcurrentAssign == Init /\ [][NextConcurrentAssign]_vars

\* Events recorded through two sessions, for a customer, a courier and an
\* id without a User row.
ConcurrentEventIds == {"c1", "p1"} \cup UnregisteredIds
ConcurrentEventTypes == {"COMPLAINT", "COMPLIMENT", "WARNING", "RATING_RECEIVED"}

NextConcurrentEvents ==
  \/ \E u \in ConcurrentEventIds : GetUserReputation(u)
  \/ \E p \in Sessions, u \in ConcurrentEventIds, t \in ConcurrentEventTypes :
        RecordEventLoad(p, u, t)
  \/ \E p \in Sessions : RecordEventWrite(p)

SpecConcurrentEvents == Init /\ [][NextConcurrentEvents]_vars

\* One order of customer c1, with one item or with two items of the same
\* dish, delivered by courier p1 and then rated any number of times (the
\* handler admits only delivered orders), its delivery once.
RatingCarts ==
  { << [dish_id |-> "d1", quantity |-> 1] >>,
    << [dish_id |-> "d1", quantity |-> 1], [dish_id |-> "d1", quantity |-> 2] >> }

FoodRatings == {NoRating, 0, 4, 5}
DeliveryRatings == {NoRating, 5, 6}
ItemRatings ==
  { << >>,
    << [order_item_id |-> 1, rating |-> 4] >>,
    << [order_item_id |-> 1, rating |-> 5], [order_item_id |-> 3, rating |-> 5] >>,
    << [order_item_id |-> 1, rating |-> 0] >> }

NextRating ==
  \/ txs = << >> /\ DepositMoney("c1", 8000)
  \/ orders = << >> /\ \E cart \in RatingCarts : CreateOrder("c1", cart)
  \/ \E st \in {"preparing", "ready_for_delivery"} : ChefUpdateStatus(1, st)
  \/ PlaceBid(1, "p1", 400)
  \/ AssignAgent(1, None, None)
  \/ \E st \in {"picked_up", "delivered"} : UpdateDeliveryStatus("p1", 1, st)
  \/ \E o \in {1, 2}, f \in FoodRatings, dr \in DeliveryRatings, ir \in ItemRatings :
        /\ o \in DOMAIN orders => orders[o].status = "delivered"
        /\ dr # NoRating => o \notin DOMAIN orderRatings.delivery
        /\ RateOrder(o, f, dr, ir)
  \/ \E c \in Customers : RateOrderHandler(c, 1)

SpecRating == Init /\ [][NextRating]_vars

\* The complaints of the seeded database under compliments, disputes and the
\* manager's two decision endpoints; c1 files further complaints and c2
\* compliments, about any id.
NextComplaints ==
  \/ \E u \in ReputationIds \ {"c1"} : FileComplaint("c1", u)
  \/ \E u \in ReputationIds \ {"c2"} : FileCompliment("c2", u)
  \/ \E u \in Users, i \in ComplaintIds : DisputeComplaint(u, i)
  \/ \E i \in ComplaintIds, a \in DecisionActions : ManagerDecideComplaint(i, a)
  \/ \E i \in ComplaintIds : ResolveComplaint(i)

SpecComplaints == InitSeeded /\ [][NextComplaints]_vars

(***************************************************************************)
(* Properties.  A step is a call of an operation when the clock stands     *)
(* still; last' then describes that call.                                  *)
(***************************************************************************)
Called(op) == now' = now /\ last'.op = op

\* the sum of balance_after - balance_before over the transactions of wallet u
RECURSIVE SumDeltas(_, _)
SumDeltas(t, u) ==
  IF t = << >> THEN 0
  ELSE (IF Head(t).wallet_id = u
        THEN Head(t).balance_after - Head(t).balance_before ELSE 0)
       + SumDeltas(Tail(t), u)

\* C1: for every wallet the sum of the deltas of its Transaction rows equals
\* its balance (the initial balance is 0), whatever operations changed it.
C1_LedgerMatchesBalance ==
  \A u \in DOMAIN wallet : SumDeltas(txs, u) = wallet[u].balance

\* the step appended one transaction of the given type that brackets the
\* balance change of its wallet, with the given signed amount, and changed
\* no other balance
OneTransaction(type, sign, amount) ==
  /\ Len(txs') = Len(txs) + 1
  /\ SubSeq(txs', 1, Len(txs)) = txs
  /\ LET t == txs'[Len(txs')]
     IN /\ t.type = type
        /\ t.amount = amount
        /\ t.amount > 0
        /\ t.balance_before = wallet[t.wallet_id].balance
        /\ t.balance_after = wallet'[t.wallet_id].balance
        /\ t.balance_after - t.balance_before = sign * t.amount
        /\ \A u \in DOMAIN wallet \ {t.wallet_id} :
              wallet'[u].balance = wallet[u].balance

\* C2: each successful deposit, charge and refund appends exactly one
\* Transaction in the step that changes the balance; its balance_before and
\* balance_after are the balances before and after the step and their
\* difference is +amount for deposit and refund, -amount for order_payment.
C2_OneTransactionPerMutation ==
  [][ /\ (Called("deposit") /\ last'.res = "ok")
         => OneTransaction("deposit", 1, last'.amt)
      /\ (Called("create_order")
            /\ (last'.res = "ok" \/ wallet' # wallet \/ txs' # txs))
         => OneTransaction("order_payment", -1,
                           orders'[Len(orders')].total_amount)
      /\ (Called("refund_order") /\ last'.res = "ok")
         => OneTransaction("refund", 1, last'.amt)
      /\ (Called("cancel_order") /\ last'.msg = "refunded")
         => OneTransaction("refund", 1, last'.amt)
    ]_vars

\* C2 witness: a deposit, a charge and a refund have all happened, the
\* refund being the most recent call.
C2_Witness ==
  /\ last.op \in {"cancel_order", "refund_order"}
  /\ last.res = "ok"
  /\ last.msg = "refunded"
  /\ \E i, j, k \in DOMAIN txs :
        /\ i < j /\ j < k
        /\ txs[i].type = "deposit"
        /\ txs[j].type = "order_payment"
        /\ txs[k].type = "refund"
        /\ txs[k].order_id = txs[j].order_id

\* C3: every wallet balance is >= 0 in every reachable state.
C3_BalanceNonNegative ==
  \A u \in DOMAIN wallet : wallet[u].balance >= 0

\* C3 witness: a charge has left a wallet with less than the price of the
\* order it paid, and a deposit of a non-positive amount was then refused.
C3_Witness ==
  /\ last.op = "deposit"
  /\ last.res = "fail"
  /\ \E i \in DOMAIN txs :
        /\ txs[i].type = "order_payment"
        /\ wallet[txs[i].wallet_id].balance < txs[i].amount
        /\ wallet[txs[i].wallet_id].balance = txs[i].balance_after

\* createOrder(c, cart) reaches its funds check and the total exceeds the
\* wallet balance
TotalExceedsBalance(c, cart) ==
  /\ Len(cart) > 0
  /\ ~VipOnlyReject(c, cart)
  /\ Len(AvailableItems(cart)) > 0
  /\ wallet[c].balance < FinalAmount(c, cart)

\* C4: when createOrder computes a total greater than the wallet balance it
\* returns failure, persists no Order or OrderItem, appends no Transaction
\* and leaves the wallet (balance and running totals) unchanged.
C4_InsufficientFundsReturnsFailure ==
  [][ \A c \in Customers, cart \in Carts :
        (/\ Called("create_order")
         /\ TotalExceedsBalance(c, cart)
         /\ CreateOrder(c, cart))
        => /\ last'.res = "fail"
           /\ orders' = orders
           /\ orderItems' = orderItems
           /\ txs' = txs
           /\ wallet' = wallet
    ]_vars

\* C5: a createOrder rejected for insufficient funds appends exactly one
\* ReputationEvent, for the customer, of type insufficient_funds with score
\* change -3, and the customer's score decreases by 3.
C5_InsufficientFundsEvent ==
  [][ \A c \in Customers, cart \in Carts :
        (/\ Called("create_order")
         /\ TotalExceedsBalance(c, cart)
         /\ CreateOrder(c, cart))
        => /\ Len(repEvents') = Len(repEvents) + 1
           /\ SubSeq(repEvents', 1, Len(repEvents)) = repEvents
           /\ repEvents'[Len(repEvents')].user_id = c
           /\ repEvents'[Len(repEvents')].event_type = "INSUFFICIENT_FUNDS"
           /\ repEvents'[Len(repEvents')].score_change = -3
           /\ repScore'[c] = repScore[c] - 3
    ]_vars

\* a call that returned success = false
ReturnedFailure == now' = now /\ last'.res = "fail"

AcceptedBids(d) ==
  { b \in DOMAIN bids : bids[b].delivery_id = d /\ bids[b].status = "accepted" }

\* C7: every delivery listing has at most one accepted bid, and a delivery
\* that has a delivery_person_id has it from that accepted bid.
C7_OneAcceptedBid ==
  \A d \in DOMAIN deliveries :
     /\ Cardinality(AcceptedBids(d)) <= 1
     /\ deliveries[d].delivery_person_id # None
        => \E b \in AcceptedBids(d) :
              bids[b].delivery_person_id = deliveries[d].delivery_person_id

\* C8: a delivery whose status is no_bidders has no delivery_person_id.
C8_NoBiddersHasNoCourier ==
  \A d \in DOMAIN deliveries :
     deliveries[d].status = "no_bidders"
     => deliveries[d].delivery_person_id = None

\* C9: assignAgent without override accepts a pending bid of the listing
\* that is minimal for (bid_amount, created_at): no pending bid is lower,
\* and none of the same amount is earlier; the courier assigned and
\* returned is that bid's courier, and the other pending bids are rejected.
C9_AutoAssignPicksLowestEarliest ==
  [][ \A o \in DOMAIN orders :
        (Called("assign_agent") /\ last'.res = "ok" /\ AssignAgent(o, None, None))
        => \E d \in DeliveryOf(deliveries, o) :
             \E w \in PendingBids(d) :
                /\ \A b \in PendingBids(d) :
                      /\ bids[w].bid_amount <= bids[b].bid_amount
                      /\ bids[w].bid_amount = bids[b].bid_amount
                         => bids[w].created_at <= bids[b].created_at
                /\ bids'[w].status = "accepted"
                /\ \A b \in PendingBids(d) \ {w} : bids'[b].status = "rejected"
                /\ deliveries'[d].delivery_person_id = bids[w].delivery_person_id
                /\ last'.u = bids[w].delivery_person_id
                /\ deliveries'[d].assignment_type = "auto_assign"
    ]_vars

\* C9 witness: an automatic assignment chose between two bids of the same
\* amount, and the accepted one was submitted earlier.
C9_Witness ==
  /\ last.op = "assign_agent"
  /\ last.res = "ok"
  /\ last.msg = "auto_assign"
  /\ \E a, r \in DOMAIN bids :
        /\ bids[a].delivery_id = bids[r].delivery_id
        /\ bids[a].status = "accepted"
        /\ bids[r].status = "rejected"
        /\ bids[a].bid_amount = bids[r].bid_amount
        /\ bids[a].created_at < bids[r].created_at
        /\ a < r
        /\ last.u = bids[a].delivery_person_id

\* the pending bids of courier p on the listing of order o
OverridePending(o, p) ==
  { b \in DOMAIN bids :
      /\ \E d \in DeliveryOf(deliveries, o) : b \in PendingBids(d)
      /\ bids[b].delivery_person_id = p }

\* the override of order o by courier p with justification j must be refused
OverrideMustBeRefused(o, p, j) ==
  \/ OverridePending(o, p) = {}
  \/ /\ j \in {None, ""}
     /\ \E b \in OverridePending(o, p) :
           \E d \in DeliveryOf(deliveries, o) :
              \E c \in PendingBids(d) : bids[b].bid_amount > bids[c].bid_amount

\* the step refused the assignment and changed no bid, delivery, order or
\* courier; or it accepted the bid of courier p as a manager override
OverrideOutcome(o, p, j) ==
  IF OverrideMustBeRefused(o, p, j)
  THEN /\ last'.res = "fail"
       /\ UNCHANGED << bids, deliveries, orders, courier >>
  ELSE /\ last'.res = "ok"
       /\ \E b \in OverridePending(o, p) :
             /\ bids'[b].status = "accepted"
             /\ \A d \in DeliveryOf(deliveries, o) :
                   /\ \A c \in PendingBids(d) \ {b} : bids'[c].status = "rejected"
                   /\ deliveries'[d].delivery_person_id = p
                   /\ deliveries'[d].assignment_type = "manager_override"
                   /\ deliveries'[d].winning_bid_amount = bids[b].bid_amount

\* C10 as stated: assignAgent with an override courier on an existing
\* listing is refused with no bid, delivery, order or courier changed when
\* the courier has no pending bid on the listing or bids above the lowest
\* bid without a justification; otherwise the courier's bid is accepted and
\* the assignment type is manager_override.
C10_OverrideRejectedOrAccepted ==
  [][ \A o \in DOMAIN orders, p \in Couriers, j \in Justifications :
        (/\ Called("assign_agent")
         /\ DeliveryOf(deliveries, o) # {}
         /\ AssignAgent(o, p, j))
        => OverrideOutcome(o, p, j)
    ]_vars

\* C10 amended: the same, for a listing that has at least one pending bid
\* (with none, assignAgent marks the listing no_bidders whether or not an
\* override courier was given).
C10_OverrideWithPendingBids ==
  [][ \A o \in DOMAIN orders, p \in Couriers, j \in Justifications :
        (/\ Called("assign_agent")
         /\ \E d \in DeliveryOf(deliveries, o) : PendingBids(d) # {}
         /\ AssignAgent(o, p, j))
        => OverrideOutcome(o, p, j)
    ]_vars

\* C10 witness: a manager override with a justification accepted a bid that
\* was higher than a bid it rejected.
C10_Witness ==
  /\ last.op = "assign_agent"
  /\ last.res = "ok"
  /\ last.msg = "manager_override"
  /\ \E a, r \in DOMAIN bids :
        /\ bids[a].delivery_id = bids[r].delivery_id
        /\ bids[a].status = "accepted"
        /\ bids[r].status = "rejected"
        /\ bids[a].bid_amount > bids[r].bid_amount
        /\ bids[a].delivery_person_id = last.u
        /\ deliveries[bids[a].delivery_id].assignment_type = "manager_override"
        /\ deliveries[bids[a].delivery_id].manager_justification = "memo"

\* the bids of courier p on delivery d
BidsOf(d, p) ==
  { b \in DOMAIN bids : bids[b].delivery_id = d /\ bids[b].delivery_person_id = p }

\* C11: a placeBid that succeeds was made no later than the listing's
\* bidding deadline by a courier without a bid on that delivery; a placeBid
\* by a courier who has a bid on the delivery fails and leaves every bid as
\* it was; so no (delivery, courier) pair ever has two bids.
C11_OneBidPerCourier ==
  [][ /\ \A d \in DOMAIN deliveries, p \in Couriers, a \in BidAmounts :
           (Called("place_bid") /\ PlaceBid(d, p, a))
           => /\ last'.res = "ok" => (now <= deliveries[d].bidding_ends_at
                                       /\ BidsOf(d, p) = {})
              /\ BidsOf(d, p) # {} => (last'.res = "fail" /\ bids' = bids)
      /\ \A d \in DOMAIN deliveries', p \in Couriers :
           Cardinality({ b \in DOMAIN bids' :
                           /\ bids'[b].delivery_id = d
                           /\ bids'[b].delivery_person_id = p }) <= 1
    ]_vars

\* C11 witness: a courier who is free again after delivering, before the
\* bidding deadline, bid a second time on the same delivery and was refused.
C11_Witness ==
  /\ last.op = "place_bid"
  /\ last.res = "fail"
  /\ last.msg = "already_bid"
  /\ \E b \in DOMAIN bids :
        /\ bids[b].status = "accepted"
        /\ courier[bids[b].delivery_person_id].is_available
        /\ now <= deliveries[bids[b].delivery_id].bidding_ends_at

\* C12: createDeliveryListing for an order that has a listing creates no
\* Delivery, leaves the listings unchanged and returns the id of the
\* existing listing; no order ever has two Delivery rows.
C12_OneListingPerOrder ==
  [][ /\ \A o \in DOMAIN orders :
           (/\ Called("create_delivery_listing")
            /\ DeliveryOf(deliveries, o) # {}
            /\ CreateDeliveryListing(o))
           => /\ deliveries' = deliveries
              /\ last'.o \in DeliveryOf(deliveries, o)
      /\ \A o \in DOMAIN orders' :
           Cardinality(DeliveryOf(deliveries', o)) <= 1
    ]_vars

\* C12 witness: a listing that has moved on (assigned, with its deadline
\* and fee) was offered for creation again.
C12_Witness ==
  /\ last.op = "create_delivery_listing"
  /\ last.res = "fail"
  /\ last.msg = "delivery_exists"
  /\ last.o \in DOMAIN deliveries
  /\ deliveries[last.o].status = "assigned"

\* the edges of the order lifecycle
LifecycleEdges ==
  { << "pending_payment", "placed" >>, << "pending_payment", "rejected" >>,
    << "placed", "preparing" >>, << "preparing", "ready_for_delivery" >>,
    << "ready_for_delivery", "assigned_for_delivery" >>,
    << "assigned_for_delivery", "in_transit" >>,
    << "in_transit", "delivered" >>, << "delivered", "completed" >> }
  \cup { << st, "cancelled" >> :
           st \in { "pending_payment", "placed", "preparing",
                    "ready_for_delivery", "assigned_for_delivery" } }

\* C13: every change of the status of an order follows an edge of the
\* order lifecycle (so no order moves backwards, and rejected, cancelled
\* and completed are never left), and an order is created as placed or
\* rejected.
C13_StatusFollowsLifecycle ==
  [][ /\ \A o \in DOMAIN orders :
           orders'[o].status # orders[o].status
           => << orders[o].status, orders'[o].status >> \in LifecycleEdges
      /\ \A o \in DOMAIN orders' \ DOMAIN orders :
           orders'[o].status \in {"placed", "rejected"}
    ]_vars

\* the chef may move order o to status st
ChefEdge(o, st) ==
  \/ st = "preparing" /\ orders[o].status = "placed"
  \/ st = "ready_for_delivery" /\ orders[o].status = "preparing"

\* C14: the chef status update moves an order only along placed ->
\* preparing and preparing -> ready_for_delivery (creating the listing when
\* the order has none); every other request is rejected with the order
\* unchanged and no delivery listing created.
C14_ChefWhitelistedEdges ==
  [][ \A o \in DOMAIN orders, st \in ChefStatuses :
        (Called("chef_update_status") /\ ChefUpdateStatus(o, st))
        => IF ChefEdge(o, st)
           THEN /\ last'.res = "ok"
                /\ orders' = [orders EXCEPT ![o].status = st]
                /\ st = "preparing" => deliveries' = deliveries
                /\ st = "ready_for_delivery"
                   => Cardinality(DeliveryOf(deliveries', o)) = 1
           ELSE /\ last'.res = "fail"
                /\ UNCHANGED db
    ]_vars

\* C14 witness: the chef was refused ready_for_delivery for an order that
\* is still placed, and no listing exists.
C14_Witness ==
  /\ last.op = "chef_update_status"
  /\ last.res = "fail"
  /\ last.msg = "not_preparing"
  /\ \E o \in DOMAIN orders : orders[o].status = "placed"
  /\ deliveries = << >>

\* the amount charged for order o: the amount of its order_payment
ChargedFor(o) == txs[Min(PaymentTxs(txs, o))].amount

\* C15: cancelOrder by the order's customer is rejected with no state change
\* when the order is in_transit, delivered or completed; for a paid order
\* in an earlier state the order becomes cancelled, its payment status
\* refunded, and the wallet is credited with the amount charged for it.
C15_CancelRefundsOrRejects ==
  [][ \A c \in Customers, o \in DOMAIN orders :
        (/\ Called("cancel_order")
         /\ orders[o].customer_id = c
         /\ CancelOrder(c, o))
        => /\ orders[o].status \in {"in_transit", "delivered", "completed"}
              => (last'.res = "fail" /\ UNCHANGED db)
           /\ (/\ orders[o].status \in
                    { "pending_payment", "placed", "preparing",
                      "ready_for_delivery", "assigned_for_delivery" }
               /\ orders[o].payment_status = "paid")
              => /\ last'.res = "ok"
                 /\ orders'[o].status = "cancelled"
                 /\ orders'[o].payment_status = "refunded"
                 /\ wallet'[c].balance = wallet[c].balance + ChargedFor(o)
                 /\ ChargedFor(o) = orders[o].total_amount
    ]_vars

\* C15 witness: an order was cancelled and refunded while a courier was
\* assigned to it.
C15_Witness ==
  /\ last.op = "cancel_order"
  /\ last.res = "ok"
  /\ last.msg = "refunded"
  /\ orders[last.o].status = "cancelled"
  /\ \E d \in DOMAIN deliveries :
        deliveries[d].order_id = last.o /\ deliveries[d].status = "assigned"

\* C16: every persisted order has total_amount = subtotal - discount_amount
\* + delivery_fee, its discount is VIP_DISCOUNT_PERCENTAGE percent of the
\* subtotal when the customer was VIP as the order was created and 0
\* otherwise, its amounts never change, and the order_payment transaction
\* of a paid order is one, for total_amount.
C16_TotalIsSubtotalLessDiscountPlusFee ==
  [][ \A o \in DOMAIN orders' :
        LET r == orders'[o]
        IN /\ r.total_amount = r.subtotal - r.discount_amount + r.delivery_fee
           /\ o \notin DOMAIN orders
              => /\ last'.op = "create_order"
                 /\ r.discount_amount =
                      IF cust[r.customer_id].is_vip
                      THEN (r.subtotal * VipDiscountPercentage) \div 100
                      ELSE 0
           /\ o \in DOMAIN orders
              => /\ r.subtotal = orders[o].subtotal
                 /\ r.discount_amount = orders[o].discount_amount
                 /\ r.delivery_fee = orders[o].delivery_fee
                 /\ r.total_amount = orders[o].total_amount
           /\ r.payment_status = "paid"
              => /\ Cardinality(PaymentTxs(txs', o)) = 1
                 /\ \A i \in PaymentTxs(txs', o) :
                       /\ txs'[i].amount = r.total_amount
                       /\ txs'[i].balance_before - txs'[i].balance_after
                            = r.total_amount
    ]_vars

\* C16 witness: a paid VIP order with a discount next to a paid order
\* without one.
C16_Witness ==
  \E o, q \in DOMAIN orders :
     /\ orders[o].is_vip_order
     /\ orders[o].discount_amount > 0
     /\ orders[o].payment_status = "paid"
     /\ ~orders[q].is_vip_order
     /\ orders[q].discount_amount = 0
     /\ orders[q].payment_status = "paid"

\* C17: the order of a VIP customer that brings vip_orders_count to a
\* multiple of 3 has delivery fee 0; with subtotal 40.00 its discount is
\* 2.00 and its total 38.00.
C17_ThirdVipOrderFreeDelivery ==
  [][ \A c \in Customers :
        (/\ Called("create_order")
         /\ cust[c].is_vip
         /\ (cust[c].vip_orders_count + 1) % 3 = 0
         /\ Len(orders') = Len(orders) + 1
         /\ orders'[Len(orders')].customer_id = c)
        => LET r == orders'[Len(orders')]
           IN /\ r.delivery_fee = 0
              /\ r.subtotal = 4000
                 => (r.discount_amount = 200 /\ r.total_amount = 3800)
    ]_vars

\* an available VIP-only dish is in the cart
HasAvailableSpecial(cart) ==
  \E i \in 1..Len(cart) :
     /\ cart[i].dish_id \in DOMAIN Dishes
     /\ Dishes[cart[i].dish_id].is_special
     /\ Dishes[cart[i].dish_id].is_available

\* a VIP-only dish is in the cart
HasSpecial(cart) ==
  \E i \in 1..Len(cart) :
     /\ cart[i].dish_id \in DOMAIN Dishes
     /\ Dishes[cart[i].dish_id].is_special

\* createOrder returned failure and persisted and charged nothing
RejectedWhole ==
  /\ last'.res = "fail"
  /\ orders' = orders
  /\ orderItems' = orderItems
  /\ txs' = txs
  /\ wallet' = wallet

\* C18 as stated: createOrder by a non-VIP customer with a cart that holds a
\* VIP-only dish returns failure, persists no order or item and charges
\* nothing.
C18_SpecialDishRejectsOrder ==
  [][ \A c \in Customers, cart \in Carts :
        (/\ Called("create_order")
         /\ ~cust[c].is_vip
         /\ HasSpecial(cart)
         /\ CreateOrder(c, cart))
        => RejectedWhole
    ]_vars

\* C18 amended: the same for a cart that holds an available VIP-only dish
\* (an unavailable one is dropped like any unavailable dish).
C18_AvailableSpecialDishRejectsOrder ==
  [][ \A c \in Customers, cart \in Carts :
        (/\ Called("create_order")
         /\ ~cust[c].is_vip
         /\ HasAvailableSpecial(cart)
         /\ CreateOrder(c, cart))
        => RejectedWhole
    ]_vars

\* C18 witness: an order holding a VIP-only dish was refused to a customer
\* who is not VIP and could have paid for it.
C18_Witness ==
  /\ last.op = "create_order"
  /\ last.res = "fail"
  /\ last.msg = "vip_only"
  /\ \E c \in Customers : ~cust[c].is_vip /\ wallet[c].balance >= 6000

\* the order_payment transactions of wallet c
PaidOrders(t, c) ==
  { i \in DOMAIN t : t[i].wallet_id = c /\ t[i].type = "order_payment" }

\* C19: a charge promotes a customer to VIP only if no complaint against
\* them is outstanding and their cumulative spend exceeds the spending
\* threshold or their number of paid orders has reached the order
\* threshold.
C19_PromotionNeedsThreshold ==
  [][ \A c \in Customers :
        (~cust[c].is_vip /\ cust'[c].is_vip)
        => /\ last'.op = "create_order"
           /\ OutstandingComplaints(c) = 0
           /\ \/ wallet'[c].total_spent > VipSpendingThreshold
              \/ Cardinality(PaidOrders(txs', c)) >= VipOrderThreshold
    ]_vars

\* The score deltas of the reputation rules, by event type.
ScoreTable ==
  [ COMPLAINT |-> -10, COMPLIMENT |-> 10, WARNING |-> -20, BONUS |-> 15,
    DEMOTION |-> -25, PROMOTION |-> 30, ORDER_COMPLETED |-> 2,
    ORDER_REJECTED |-> -5, INSUFFICIENT_FUNDS |-> -3, RATING_RECEIVED |-> 0 ]

\* The score_change of the events logged for u, in order.
ScoreChanges(u) ==
  LET own == SelectSeq(repEvents, LAMBDA e : e.user_id = u)
  IN [i \in 1..Len(own) |-> own[i].score_change]

\* C20: in every reachable state the reputation score of every user is the
\* sum of score_change over the events logged for that user, and the
\* score_change of every logged event is the table value of its event type.
C20_ScoreIsSumOfLoggedEvents ==
  /\ \A u \in ReputationIds : repScore[u] = SumSeq(ScoreChanges(u))
  /\ \A i \in DOMAIN repEvents :
       /\ repEvents[i].event_type \in DOMAIN ScoreTable
       /\ repEvents[i].score_change = ScoreTable[repEvents[i].event_type]

\* A warning has just been logged on top of a complaint against the same
\* id, whose score is then -30.
C20_Witness ==
  /\ last.op = "apply_warning"
  /\ last.res = "ok"
  /\ Len(repEvents) = 2
  /\ repEvents[1].user_id = last.u
  /\ repEvents[1].event_type = "COMPLAINT"
  /\ repEvents[2].user_id = last.u
  /\ repEvents[2].event_type = "WARNING"
  /\ repScore[last.u] = -30

\* C21: an apply_warning call for a user who is not a VIP returns, counts the
\* warning, and, when the count it reaches is WARNING_THRESHOLD_DEREGISTER,
\* leaves that user deactivated.
C21_ThirdWarningDeactivates ==
  [][ \A u \in Users :
        ( /\ Called("apply_warning")
          /\ ~(u \in DOMAIN cust /\ cust[u].is_vip)
          /\ ApplyWarning(u) )
        => /\ last'.res = "ok"
           /\ repTotals'[u].warnings = repTotals[u].warnings + 1
           /\ (repTotals'[u].warnings = WarningThresholdDeregister
                 => userStatus'[u] = "deactivated") ]_vars

\* C22: an apply_warning call for a VIP customer returns and counts the
\* warning; when the count it reaches is WARNING_THRESHOLD_VIP_DEMOTION the
\* customer is left with is_vip false, role customer and total_warnings 0,
\* and is not deactivated.
C22_SecondWarningDemotesVip ==
  [][ \A u \in Customers :
        ( /\ Called("apply_warning")
          /\ cust[u].is_vip
          /\ ApplyWarning(u) )
        => /\ last'.res = "ok"
           /\ IF repTotals[u].warnings + 1 = WarningThresholdVipDemotion
              THEN /\ ~cust'[u].is_vip
                   /\ userType'[u] = "customer"
                   /\ repTotals'[u].warnings = 0
                   /\ userStatus'[u] # "deactivated"
              ELSE repTotals'[u].warnings = repTotals[u].warnings + 1 ]_vars

\* The pending complaints against u.
PendingAgainst(cs, u) ==
  { i \in DOMAIN cs : cs[i].subject_id = u /\ cs[i].status = "pending" }

\* C23: a file_compliment call for a staff user returns; when the user has a
\* pending complaint, exactly one pending complaint against that user
\* becomes resolved, no other complaint changes, and the staff member's
\* complaints_count goes down by one, not below 0.
C23_ComplimentResolvesOneComplaint ==
  [][ \A a \in Customers, u \in Couriers \cup Chefs :
        ( /\ Called("file_compliment")
          /\ FileCompliment(a, u) )
        => /\ last'.res = "ok"
           /\ PendingAgainst(complaints, u) # {}
                => /\ Len(complaints') = Len(complaints)
                   /\ \E i \in PendingAgainst(complaints, u) :
                        /\ complaints'[i].status = "resolved"
                        /\ \A j \in DOMAIN complaints \ {i} :
                             complaints'[j] = complaints[j]
                   /\ staff'[u].complaints_count =
                        IF staff[u].complaints_count > 0
                        THEN staff[u].complaints_count - 1 ELSE 0 ]_vars

\* C24: a create_order call that succeeds has passed the sufficiency check
\* against the balance the wallet holds when the charge is written, not a
\* stale one: the stored balance covers the amount, the charge lowers it by
\* exactly the amount, and the balance is never negative.  Of two calls in
\* progress whose amounts together exceed the balance, at most one succeeds.
C24_NoChargeAgainstStaleBalance ==
  [][ \A p \in Sessions :
        (CreateOrderCommit(p) /\ last'.res = "ok")
        => /\ wallet[sess[p].c].balance >= sess[p].final_amount
           /\ wallet'[sess[p].c].balance =
                wallet[sess[p].c].balance - sess[p].final_amount
           /\ wallet'[sess[p].c].balance >= 0 ]_vars

\* The accepted bids on listing d among the rows bs.
AcceptedAmong(bs, d) ==
  { b \in DOMAIN bs : bs[b].delivery_id = d /\ bs[b].status = "accepted" }

\* C25: an assign_agent call that returns success has not been overtaken by
\* another call on the same listing (the listing is still as the call
\* loaded it, so of two calls in progress at most one succeeds), and it
\* leaves the listing with exactly one accepted bid, whose
\* courier is the assigned one and is unavailable.
C25_OneAssignmentSucceeds ==
  [][ \A p \in Sessions :
        (AssignAgentWrite(p) /\ last'.res = "ok")
        => /\ deliveries[sess[p].d] = sess[p].delivery
           /\ Cardinality(AcceptedAmong(bids', sess[p].d)) = 1
           /\ \A b \in AcceptedAmong(bids', sess[p].d) :
                /\ bids'[b].delivery_person_id =
                     deliveries'[sess[p].d].delivery_person_id
                /\ ~courier'[bids'[b].delivery_person_id].is_available ]_vars

\* C26: a record_event call that returns has lost no update of another call
\* for the same user: it adds its delta to the score stored when it writes,
\* logs its event after the events already logged, and raises its counter
\* from the stored counters.
C26_NoLostReputationUpdate ==
  [][ \A p \in Sessions :
        (RecordEventWrite(p) /\ last'.res = "ok")
        => LET u == sess[p].u
               e == repEvents'[Len(repEvents')].event_type
           IN /\ repScore'[u] = repScore[u] + ScoreTable[e]
              /\ SubSeq(repEvents', 1, Len(repEvents)) = repEvents
              /\ repTotals'[u].complaints = repTotals[u].complaints
                                            + (IF e = "COMPLAINT" THEN 1 ELSE 0)
              /\ repTotals'[u].compliments = repTotals[u].compliments
                                             + (IF e = "COMPLIMENT" THEN 1 ELSE 0)
              /\ repTotals'[u].warnings = repTotals[u].warnings
                                          + (IF e = "WARNING" THEN 1 ELSE 0) ]_vars

\* The ratings one rate_order call applies to dish d: the accepted entries
\* of item_ratings on items of the order with that dish or, when no item
\* ratings were passed, the food rating once per item with that dish.
DishRatingsOf(order_id, food_rating, item_ratings, d) ==
  IF Len(item_ratings) > 0
  THEN LET accepted(r) ==
             /\ r.order_item_id \in 1..Len(orderItems)
             /\ r.rating # 0
             /\ orderItems[r.order_item_id].order_id = order_id
             /\ orderItems[r.order_item_id].dish_id = d
           picked == SelectSeq(item_ratings, accepted)
       IN [i \in 1..Len(picked) |-> picked[i].rating]
  ELSE IF food_rating # NoRating
  THEN LET mine == SelectSeq(orderItems,
                             LAMBDA it : it.order_id = order_id /\ it.dish_id = d)
       IN [i \in 1..Len(mine) |-> food_rating]
  ELSE << >>

\* C27: a rate_order call that returns raises a dish's rating_count by one
\* for each rating it applies to the dish and leaves the average at
\* (old_average * old_count + the ratings) / new_count; with one rating that
\* is (old_average * old_count + new_rating) / (old_count + 1); a dish it
\* applies no rating to keeps both values.
C27_IncrementalDishAverage ==
  [][ \A o \in {1, 2}, f \in FoodRatings, dr \in DeliveryRatings, ir \in ItemRatings :
        (/\ Called("rate_order") /\ last'.res = "ok"
         /\ last'.o = o /\ last'.amt = f
         /\ RateOrder(o, f, dr, ir))
        => \A d \in DOMAIN Dishes :
             LET q == DishRatingsOf(o, f, ir, d)
                 old == dishStats[d]
             IN /\ dishStats'[d].rating_count = old.rating_count + Len(q)
                /\ dishStats'[d].average_rating =
                     IF Len(q) = 0 THEN old.average_rating
                     ELSE Rat(old.average_rating.n * old.rating_count
                                + SumSeq(q) * old.average_rating.d,
                              old.average_rating.d * (old.rating_count + Len(q))) ]_vars

\* a one-item order rated 4 and then 5: the dish ends at 4.5 with count 2
C27_Witness ==
  /\ last.op = "rate_order" /\ last.res = "ok"
  /\ Len(orderItems) = 1
  /\ orderRatings.item = << >>
  /\ 1 \in DOMAIN orderRatings.food /\ orderRatings.food[1] = 5
  /\ dishStats["d1"] = [average_rating |-> [n |-> 9, d |-> 2], rating_count |-> 2]

\* C28: a record_event call that files a complaint on a chef or courier with
\* demotion_count 0 returns; it counts the complaint and, when the count it
\* reaches is ComplaintsForDemotion, leaves demotion_count 1, the salary at
\* 90%, complaints_count 0 and the user active.
C28_FirstDemotionCutsSalary ==
  [][ \A u \in Couriers \cup Chefs :
        ( /\ Called("record_event")
          /\ staff[u].demotion_count = 0
          /\ CallRecordEvent(u, "COMPLAINT") )
        => /\ last'.res = "ok"
           /\ IF staff[u].complaints_count + 1 >= ComplaintsForDemotion
              THEN /\ staff'[u].demotion_count = 1
                   /\ staff'[u].salary * 10 = staff[u].salary * 9
                   /\ staff'[u].complaints_count = 0
                   /\ userStatus'[u] = "active"
              ELSE /\ staff'[u].demotion_count = 0
                   /\ staff'[u].complaints_count = staff[u].complaints_count + 1 ]_vars

C30_LowScoreBlacklists ==
  [][ \A u \in Users, t \in EventTypeArgs :
        (Called("record_event") /\ CallRecordEvent(u, t))
        => /\ last'.res = "ok"
           /\ (repScore'[u] <= BlacklistReputationThreshold
                 => userStatus'[u] = "blacklisted") ]_vars

\* C31: a record_event call for a customer who is not a VIP returns, and when
\* the score it leaves is at or above VIP_REPUTATION_THRESHOLD the customer
\* has is_vip true and the role vip.
C31_HighScorePromotes ==
  [][ \A u \in Customers, t \in EventTypeArgs :
        ( /\ Called("record_event")
          /\ ~cust[u].is_vip
          /\ CallRecordEvent(u, t) )
        => /\ last'.res = "ok"
           /\ (repScore'[u] >= VipReputationThreshold
                 => cust'[u].is_vip /\ userType'[u] = "vip") ]_vars

\* C32: in every state a customer's is_vip flag is true exactly when the
\* user's role is vip.
C32_VipFlagMatchesRole ==
  \A c \in Customers : cust[c].is_vip <=> userType[c] = "vip"

RefundTxs(order_id) ==
  { i \in DOMAIN txs : txs[i].order_id = order_id /\ txs[i].type = "refund" }

\* C34: an order has at most one refund transaction, and so is never
\* refunded more than the amount it was charged.
C34_OneRefundPerOrder ==
  \A o \in DOMAIN orders :
    /\ Cardinality(RefundTxs(o)) <= 1
    /\ \A i \in RefundTxs(o) : \A p \in PaymentTxs(txs, o) :
         Cardinality(RefundTxs(o)) * txs[i].amount <= txs[p].amount

\* the edges of the delivery status machine; failed and cancelled are
\* reachable from the states before delivered
DeliveryEdges ==
  { << "pending_bidding", "no_bidders" >>, << "pending_bidding", "assigned" >>,
    << "no_bidders", "assigned" >>, << "no_bidders", "picked_up" >>,
    << "assigned", "picked_up" >>, << "picked_up", "in_transit" >>,
    << "in_transit", "delivered" >> }
  \cup ({"pending_bidding", "no_bidders", "assigned", "picked_up", "in_transit"}
        \X {"failed", "cancelled"})

\* C35: every step that changes the status of a delivery follows an edge of
\* the delivery status machine: no status is skipped or reverted, and
\* delivered is never left.
C35_DeliveryStatusFollowsEdges ==
  [][ \A d \in DOMAIN deliveries :
        deliveries'[d].status # deliveries[d].status
        => << deliveries[d].status, deliveries'[d].status >> \in DeliveryEdges ]_vars

\* C36: a delivery in status picked_up or in_transit has its order in
\* in_transit, and a delivery in status delivered has its order delivered or
\* completed.
C36_OrderMirrorsDelivery ==
  \A d \in DOMAIN deliveries :
    LET o == deliveries[d].order_id
    IN o \in DOMAIN orders
       => /\ deliveries[d].status \in {"picked_up", "in_transit"}
               => orders[o].status = "in_transit"
          /\ deliveries[d].status = "delivered"
               => orders[o].status \in {"delivered", "completed"}

\* C37: the courier of a delivery in status assigned, picked_up or
\* in_transit is not available.
C37_ActiveCourierUnavailable ==
  \A d \in DOMAIN deliveries :
    ( /\ deliveries[d].status \in {"assigned", "picked_up", "in_transit"}
      /\ deliveries[d].delivery_person_id \in Couriers )
    => ~courier[deliveries[d].delivery_person_id].is_available

\* the status changes the complaint machine allows
ComplaintEdges ==
  { << "pending", "resolved" >>, << "pending", "disputed" >>,
    << "disputed", "resolved" >>, << "disputed", "rejected" >> }

\* C38: a complaint's status changes only along pending -> resolved,
\* pending -> disputed, disputed -> resolved and disputed -> rejected, under
\* every sequence of compliments, disputes and manager decisions; resolved
\* and rejected are never left.
C38_ComplaintStatusFollowsEdges ==
  [][ \A i \in DOMAIN complaints :
        complaints'[i].status # complaints[i].status
        => << complaints[i].status, complaints'[i].status >> \in ComplaintEdges ]_vars

\* the orders of customer c that were paid
PaidOrdersOf(c) ==
  { o \in DOMAIN orders : /\ orders[o].customer_id = c
                          /\ orders[o].payment_status = "paid" }

\* C39: after any sequence of create_order calls, a customer's total_orders
\* is the number of that customer's paid orders and total_spent is the sum of
\* their total_amount: each successful order counts once.
C39_TotalsMatchPaidOrders ==
  \A c \in Customers :
    /\ cust[c].total_orders = Cardinality(PaidOrdersOf(c))
    /\ cust[c].total_spent =
         SumSeq([o \in DOMAIN orders |->
                   IF o \in PaidOrdersOf(c) THEN orders[o].total_amount ELSE 0])

\* C40: record_event called for an existing user of any role completes
\* normally: it returns without raising, and the event row and the score
\* update are committed.
C40_RecordEventCompletes ==
  [][ \A u \in Users, t \in EventTypeArgs :
        (Called("record_event") /\ CallRecordEvent(u, t))
        => /\ last'.res = "ok"
           /\ Len(repEvents') = Len(repEvents) + 1
           /\ repEvents'[Len(repEvents')].user_id = u
           /\ repScore'[u] =
                repScore[u] + repEvents'[Len(repEvents')].score_change ]_vars

====
